---- MODULE Spec2Model ----
(***************************************************************************)
(* Control plane of the social agent: the health monitor                   *)
(* (control.py, SandboxController.check_health), the migration state       *)
(* machine (lifecycle.py, LifecycleManager) and the watchdog reconcile     *)
(* pass (scripts/watchdog_check.py).                                       *)
(*                                                                         *)
(* Remote calls are modelled by their documented contracts in control.py:  *)
(* kill returns TRUE exactly when the sandbox was there and is now gone,   *)
(* list_sandboxes returns the live population in listing order,            *)
(* read_file / write_file / Sandbox.create may raise.  Times are whole     *)
(* seconds.  Each public operation is one atomic action; the collaborator  *)
(* calls it issues are recorded, in order, in `calls`.                     *)
(*                                                                         *)
(* The sync worker (git_sync.py, GitSync) runs on threads of its own and   *)
(* is modelled step by step: the callers of start(), stop() and            *)
(* queue_sync() and each consumer thread take their steps in any order.    *)
(*                                                                         *)
(* Three further specifications look at the control plane where one        *)
(* atomic operation is not the whole story: SpecOverlap takes              *)
(* create_successor in its two steps with two callers, SpecCrash cuts      *)
(* migrate() short after any of its calls, and SpecRepair lets the         *)
(* reconcile passes repeat under fairness.                                 *)
(***************************************************************************)
EXTENDS Integers, Sequences, FiniteSets, TLC

VARIABLES
    live,                 \* sandbox ids the provisioning service lists, in listing order
    hb,                   \* per sandbox id: what a heartbeat read observes there
    today,                \* current UTC date (day number)
    migrations_today,     \* LifecycleManager._migrations_today
    last_migration_date,  \* LifecycleManager._last_migration_date (0 is "")
    op,                   \* the operation that ran last
    calls,                \* collaborator calls the last operation issued, in order
                          \* (for the sync worker: the git commands of the last _do_sync)
    mres,                 \* MigrationResult of the last migrate()
    wres,                 \* WatchdogResult of the last run_watchdog()
    seen,                 \* health classifications the last operation made, in order
    pre,                  \* population and counters when the last operation started
    prev,                 \* outcome of the pass right before the last one, if nothing came between
    allowed,              \* what the last can_migrate returned
    hin,                  \* inputs of the health check under test
    hres,                 \* HealthCheck it returned
    exit_code,            \* exit status main() gives the outcome of the last pass
    running,              \* GitSync._running
    thread,               \* GitSync._thread (0 is None)
    queue,                \* GitSync._queue, oldest first
    total_syncs,          \* GitSync._total_syncs
    total_failures,       \* GitSync._total_failures
    tracker_path,         \* GitSync.tracker_path is set
    results,              \* SyncResults handed to _log_result, in order
    consumers,            \* per thread ever created: where it is in _worker
    ctl,                  \* the caller of start() and stop(): where it is in stop()
    prod,                 \* the caller of queue_sync(): where it is in queue_sync()
    accepted,             \* entries for which queue_sync returned True
    ret,                  \* what the last queue_sync returned
    staged,               \* the git index holds changes
    local,                \* entries whose commit is in the local branch only
    tries,                \* per entry: how often _do_sync ran for it
    at_stop,              \* entries the queue held when stop() last lowered _running
    successes,            \* history: migrate() calls that returned success=True since
                          \* the daily counter was last reset
    passes                \* per overlapping create_successor call: where it is and
                          \* the number of sandboxes it counted

ControlVars == <<live, hb, today, migrations_today, last_migration_date, op,
                 mres, wres, seen, pre, prev, allowed, hin, hres, exit_code,
                 successes, passes>>

SyncVars == <<running, thread, queue, total_syncs, total_failures, tracker_path,
              results, consumers, ctl, prod, accepted, ret, staged, local, tries,
              at_stop>>

vars == <<live, hb, today, migrations_today, last_migration_date, op, calls,
          mres, wres, seen, pre, prev, allowed, hin, hres, exit_code,
          running, thread, queue, total_syncs, total_failures, tracker_path,
          results, consumers, ctl, prod, accepted, ret, staged, local, tries,
          at_stop, successes, passes>>

-----------------------------------------------------------------------------
(* Bounds of the model *)

MaxIds == 4          \* sandbox ids 1..MaxIds
MaxLive == 2         \* sandboxes that appear on their own stop at this population
MaxDay == 2          \* dates 1..MaxDay
MaxPolls == 2        \* polls verify_successor makes before its timeout
MaxThreshold == 3    \* thresholds and heartbeat ages tried on check_health
max_migrations_per_day == 2   \* LifecycleManager.max_migrations_per_day as configured
MAX_QUEUE_SIZE == 1  \* capacity of the sync queue (_MAX_QUEUE_SIZE is 100 in the source)
MaxEntries == 2      \* entries 1..MaxEntries are offered to queue_sync, in this order
MaxThreads == 2      \* consumer threads one GitSync instance creates at most

(* Program constants *)

MAX_CONCURRENT_SANDBOXES == 2
DEFAULT_HEALTHY_THRESHOLD == 60
DEFAULT_STUCK_THRESHOLD == 600
STUCK_THRESHOLD_S == 600
DeploySteps == 3
Inf == 1000000

Ids == 1..MaxIds
None == 0

-----------------------------------------------------------------------------
(* Health monitor: control.py *)

HEALTHY == "healthy"
STUCK == "stuck"
DEAD == "dead"
UNKNOWN == "unknown"
RAISED == "raised"

HealthStatus == {HEALTHY, STUCK, DEAD, UNKNOWN}

\* What read_file + json.loads of heartbeat.json yields.
FileKinds == {"unreadable", "badjson", "nondict", "dict"}
\* What Sandbox.connect + is_running yields.
ConnKinds == {"raises", "running", "stopped"}
\* The "timestamp" entry of the heartbeat object.
TsKinds == {"absent", "null", "empty", "nonstring", "garbage", "naive", "aware"}

HealthCheck(status, error, known, elapsed) ==
    [status |-> status, error |-> error, has_elapsed |-> known,
     seconds_since_heartbeat |-> elapsed]

\* Mutant: a failed connect is taken for a running sandbox.
is_alive_optimistic(conn) == conn # "stopped"

is_alive(conn) == conn = "running"

\* bool(timestamp_str): absent -> None, null -> None, "" are falsy.
Truthy(ts) == ts \notin {"absent", "null", "empty"}

\* datetime.fromisoformat(ts) and (now - last_beat) succeed only for an
\* ISO string with an offset: a non-string raises TypeError, garbage raises
\* ValueError, a naive datetime raises TypeError on the subtraction.
ElapsedComputes(ts) == ts = "aware"

\* Mutant: closed intervals, an age equal to a threshold stays in the lower class.
Classify_inclusive(elapsed, healthy_threshold, stuck_threshold) ==
    IF elapsed <= healthy_threshold THEN HEALTHY
    ELSE IF elapsed <= stuck_threshold THEN STUCK
    ELSE DEAD

Classify(elapsed, healthy_threshold, stuck_threshold) ==
    IF elapsed < healthy_threshold THEN HEALTHY
    ELSE IF elapsed < stuck_threshold THEN STUCK
    ELSE DEAD

\* The except branch: the heartbeat could not be read or parsed.
heartbeat_unreadable(conn) ==
    IF is_alive(conn)
    THEN HealthCheck(UNKNOWN, "Cannot read heartbeat", FALSE, 0)
    ELSE HealthCheck(DEAD, "Sandbox not running", FALSE, 0)

\* Mutant: a missing timestamp on an unreachable sandbox is reported DEAD.
timestamp_missing_dead(conn) ==
    IF is_alive(conn)
    THEN HealthCheck(UNKNOWN, "Heartbeat has no timestamp", FALSE, 0)
    ELSE HealthCheck(DEAD, "Heartbeat has no timestamp", FALSE, 0)

\* The heartbeat object has no (truthy) "timestamp".
timestamp_missing(conn) == HealthCheck(UNKNOWN, "Heartbeat has no timestamp", FALSE, 0)

check_health(h, healthy_threshold, stuck_threshold) ==
    IF h.file \in {"unreadable", "badjson"}
    THEN heartbeat_unreadable(h.conn)
    ELSE IF h.file = "nondict"
    THEN HealthCheck(RAISED, "AttributeError", FALSE, 0)
    ELSE IF ~Truthy(h.ts)
    THEN timestamp_missing(h.conn)
    ELSE IF ~ElapsedComputes(h.ts)
    THEN HealthCheck(UNKNOWN, "Invalid timestamp", FALSE, 0)
    ELSE HealthCheck(Classify(h.elapsed, healthy_threshold, stuck_threshold),
                     "", TRUE, h.elapsed)

Heartbeat(file, conn, ts, elapsed) ==
    [file |-> file, conn |-> conn, ts |-> ts, elapsed |-> elapsed]

NoHealth == HealthCheck("none", "", FALSE, 0)

HealthInputs ==
    [file : FileKinds, conn : ConnKinds, ts : TsKinds,
     elapsed : -1..(MaxThreshold + 1),
     healthy_threshold : 0..MaxThreshold, stuck_threshold : 0..MaxThreshold]

NoInput ==
    [file |-> "unreadable", conn |-> "raises", ts |-> "absent", elapsed |-> 0,
     healthy_threshold |-> 0, stuck_threshold |-> 0]

-----------------------------------------------------------------------------
(* Heartbeats a live sandbox can show in the stateful specifications.  The *)
(* worker writes a JSON object with an aware ISO timestamp (agent.py,      *)
(* _write_heartbeat); ages sit on both sides of the default thresholds.    *)

HBAges == {0, 5, DEFAULT_HEALTHY_THRESHOLD, DEFAULT_STUCK_THRESHOLD}

NoFileRunning == Heartbeat("unreadable", "running", "absent", 0)
NoFileGone == Heartbeat("unreadable", "raises", "absent", 0)
Beat(age) == Heartbeat("dict", "running", "aware", age)

HBStates == {NoFileRunning} \cup {Beat(a) : a \in HBAges}

-----------------------------------------------------------------------------
(* Instance client: control.py *)

Call(name, id, ok) == [call |-> name, id |-> id, ok |-> ok]

Range(l) == {l[k] : k \in 1..Len(l)}

Member(l, id) == \E k \in 1..Len(l) : l[k] = id

Remove(l, id) == SelectSeq(l, LAMBDA x : x # id)

\* kill, were False to mean that the sandbox is still there.
kill_fails(l, id) == [ok |-> FALSE, live |-> l]

\* SandboxController.kill: True if the sandbox was killed, False if not found.
kill(l, id) == [ok |-> Member(l, id), live |-> Remove(l, id)]

-----------------------------------------------------------------------------
(* Migration state machine: lifecycle.py *)

\* What a caller keeps of one health check of sandbox id.
Seen(id, health) ==
    [id |-> id, status |-> health.status,
     seconds_since_heartbeat |-> health.seconds_since_heartbeat]

MigrationResult(success, old, new, error) ==
    [success |-> success, old_sandbox_id |-> old, new_sandbox_id |-> new,
     error |-> error]

NoMigration == MigrationResult(FALSE, None, None, "none")

\* Mutant: the date is brought up to date but the counter is kept.
reset_daily_counter_date_only(mt, lmd, day) ==
    [migrations_today |-> mt, last_migration_date |-> day]

reset_daily_counter(mt, lmd, day) ==
    IF day # lmd
    THEN [migrations_today |-> 0, last_migration_date |-> day]
    ELSE [migrations_today |-> mt, last_migration_date |-> lmd]

\* Mutant: one migration more than the limit is let through.
can_migrate_off_by_one(mt, lmd, day) ==
    LET r == reset_daily_counter(mt, lmd, day)
    IN  [ok |-> r.migrations_today <= max_migrations_per_day,
         migrations_today |-> r.migrations_today,
         last_migration_date |-> r.last_migration_date]

can_migrate(mt, lmd, day) ==
    LET r == reset_daily_counter(mt, lmd, day)
    IN  [ok |-> r.migrations_today < max_migrations_per_day,
         migrations_today |-> r.migrations_today,
         last_migration_date |-> r.last_migration_date]

check_concurrent_sandboxes(l) == Len(l)

\* new_id is the id the provisioning service hands out when createOk.
create_successor(l, createOk, new_id) ==
    LET listed == <<Call("list_sandboxes", None, TRUE)>>
    IN  IF check_concurrent_sandboxes(l) >= MAX_CONCURRENT_SANDBOXES
        THEN [new_id |-> None, live |-> l, calls |-> listed]
        ELSE IF createOk
        THEN [new_id |-> new_id, live |-> Append(l, new_id),
              calls |-> Append(listed, Call("create", new_id, TRUE))]
        ELSE [new_id |-> None, live |-> l,
              calls |-> Append(listed, Call("create", None, FALSE))]

\* Texts are sequences of parts; a URL is its scheme followed by the rest.
brain_repo_url == <<"https://", "github.com/org/brain">>

github_token == "ghp_token"

startswith(text, prefix) == Len(text) >= 1 /\ text[1] = prefix

\* str.replace(old, new, 1): the first part equal to old gives way to new.
replace_first(text, old, new) ==
    LET S == {k \in 1..Len(text) : text[k] = old}
    IN  IF S = {} THEN text
        ELSE LET k == CHOOSE i \in S : \A j \in S : i <= j
             IN  SubSeq(text, 1, k - 1) \o new \o SubSeq(text, k + 1, Len(text))

\* Parts the shell would split or interpret.
ShellSpecial == {" ", ";", "&", "|", "$", "'"}

\* shlex.quote: a text with no special part is left as it is, any other is
\* put in single quotes.
shlex_quote(text) ==
    IF \A k \in 1..Len(text) : text[k] \notin ShellSpecial THEN text
    ELSE <<"'">> \o text \o <<"'">>

auth_url(repo_url, token) ==
    IF startswith(repo_url, "https://")
    THEN replace_first(repo_url, "https://", <<"https://", token, "@">>)
    ELSE repo_url

\* The three deploy commands, in order: install, clone, start.
deploy_commands(repo_url, token) ==
    << <<"pip install social-agent">>,
       <<"git clone ">> \o shlex_quote(auth_url(repo_url, token)) \o <<" /home/user/brain">>,
       <<"cd /home/user/brain && python -m social_agent run &">> >>

\* A write_file call as the controller receives it.
WriteFile(id, path, content, ok) ==
    [call |-> "write_file", id |-> id, ok |-> ok, path |-> path, content |-> content]

\* failAt = k > 0: the k-th write_file raises; failAt = 0: none does.
deploy_self(id, repo_url, token, failAt) ==
    LET commands == deploy_commands(repo_url, token)
        n == IF failAt = 0 THEN Len(commands) ELSE failAt
    IN  [ok |-> failAt = 0,
         calls |-> [k \in 1..n |->
                      WriteFile(id, "/tmp/deploy_cmd.sh",
                                <<"#!/bin/bash\n">> \o commands[k] \o <<"\n">>,
                                k # failAt)]]

\* Mutant: one poll only, with no wait for a late first heartbeat.
verify_successor_single_poll(id, obs) ==
    LET h == check_health(obs[1], DEFAULT_HEALTHY_THRESHOLD, DEFAULT_STUCK_THRESHOLD)
    IN  [ok |-> h.status = HEALTHY, polls |-> 1,
         calls |-> <<Call("check_health", id, TRUE)>>,
         seen |-> <<Seen(id, h)>>]

\* Mutant: the successor is taken as verified whatever the polls read.
verify_successor_unchecked(id, obs) ==
    [ok |-> TRUE, polls |-> Len(obs),
     calls |-> [k \in 1..Len(obs) |-> Call("check_health", id, TRUE)],
     seen |-> [k \in 1..Len(obs) |->
                  Seen(id, check_health(obs[k], DEFAULT_HEALTHY_THRESHOLD,
                                        DEFAULT_STUCK_THRESHOLD))]]

\* obs[k] is what the k-th poll reads; Len(obs) polls fit in the timeout.
verify_successor(id, obs) ==
    LET hits == {k \in 1..Len(obs) :
                    check_health(obs[k], DEFAULT_HEALTHY_THRESHOLD,
                                 DEFAULT_STUCK_THRESHOLD).status = HEALTHY}
        n == IF hits = {} THEN Len(obs)
             ELSE CHOOSE k \in hits : \A j \in hits : k <= j
    IN  [ok |-> hits # {}, polls |-> n,
         calls |-> [k \in 1..n |-> Call("check_health", id, TRUE)],
         seen |-> [k \in 1..n |->
                      Seen(id, check_health(obs[k], DEFAULT_HEALTHY_THRESHOLD,
                                            DEFAULT_STUCK_THRESHOLD))]]

\* Mutant: the counter goes up whether or not the old sandbox was killed.
graceful_shutdown_always_counts(l, id, mt, auditOk) ==
    LET k == kill(l, id)
    IN  [killed |-> k.ok, live |-> k.live,
         migrations_today |-> mt + 1,
         calls |-> <<Call("inject_override", id, auditOk /\ Member(l, id)),
                     Call("kill", id, k.ok)>>]

\* Mutant: a failed audit note ends the shutdown before the kill.
graceful_shutdown_aborts_on_audit(l, id, mt, auditOk) ==
    LET k == kill(l, id)
        noted == auditOk /\ Member(l, id)
    IN  IF noted
        THEN [killed |-> k.ok, live |-> k.live,
              migrations_today |-> IF k.ok THEN mt + 1 ELSE mt,
              calls |-> <<Call("inject_override", id, TRUE), Call("kill", id, k.ok)>>]
        ELSE [killed |-> FALSE, live |-> l, migrations_today |-> mt,
              calls |-> <<Call("inject_override", id, FALSE)>>]

\* auditOk: inject_override does not raise (it raises when id is not there).
graceful_shutdown(l, id, mt, auditOk) ==
    LET k == kill(l, id)
    IN  [killed |-> k.ok, live |-> k.live,
         migrations_today |-> IF k.ok THEN mt + 1 ELSE mt,
         calls |-> <<Call("inject_override", id, auditOk /\ Member(l, id)),
                     Call("kill", id, k.ok)>>]

\* Mutant: the failure paths return without the clean-up kill.
kill_successor_skipped(l, new_id) == [live |-> l, calls |-> <<>>]

\* "Clean up failed successor": the kill migrate() issues on its failure paths.
kill_successor(l, new_id) ==
    LET k == kill(l, new_id)
    IN  [live |-> k.live, calls |-> <<Call("kill", new_id, k.ok)>>]

Outcome(result, l, mt, lmd, cs, reached) ==
    [result |-> result, live |-> l, migrations_today |-> mt,
     last_migration_date |-> lmd, calls |-> cs, verified |-> reached]

\* Mutant: a migration whose old sandbox could not be killed is undone.
migrate_requires_retirement(l, mt, lmd, day, old, createOk, new_id, failAt, obs, auditOk) ==
    LET can == can_migrate(mt, lmd, day)
        c == create_successor(l, createOk, new_id)
        d == deploy_self(c.new_id, brain_repo_url, github_token, failAt)
        v == verify_successor(c.new_id, obs)
        undo == kill_successor(c.live, c.new_id)
        g == graceful_shutdown(c.live, old, can.migrations_today, auditOk)
        m == can.migrations_today
        date == can.last_migration_date
    IN  IF ~can.ok
        THEN Outcome(MigrationResult(FALSE, old, None, "Daily migration limit reached"),
                     l, m, date, <<>>, FALSE)
        ELSE IF c.new_id = None
        THEN Outcome(MigrationResult(FALSE, old, None, "Failed to create successor sandbox"),
                     c.live, m, date, c.calls, FALSE)
        ELSE IF ~d.ok
        THEN Outcome(MigrationResult(FALSE, old, c.new_id, "Failed to deploy to successor"),
                     undo.live, m, date,
                     c.calls \o d.calls \o undo.calls, FALSE)
        ELSE IF ~v.ok
        THEN Outcome(MigrationResult(FALSE, old, c.new_id,
                                     "Successor failed health verification"),
                     undo.live, m, date,
                     c.calls \o d.calls \o v.calls \o undo.calls, TRUE)
        ELSE IF ~g.killed
        THEN Outcome(MigrationResult(FALSE, old, c.new_id, "Failed to retire old sandbox"),
                     kill_successor(g.live, c.new_id).live, m, date,
                     c.calls \o d.calls \o v.calls \o g.calls
                        \o kill_successor(g.live, c.new_id).calls, TRUE)
        ELSE Outcome(MigrationResult(TRUE, old, c.new_id, ""),
                     g.live, g.migrations_today, date,
                     c.calls \o d.calls \o v.calls \o g.calls, TRUE)

migrate(l, mt, lmd, day, old, createOk, new_id, failAt, obs, auditOk) ==
    LET can == can_migrate(mt, lmd, day)
        c == create_successor(l, createOk, new_id)
        d == deploy_self(c.new_id, brain_repo_url, github_token, failAt)
        v == verify_successor(c.new_id, obs)
        undo == kill_successor(c.live, c.new_id)
        g == graceful_shutdown(c.live, old, can.migrations_today, auditOk)
        m == can.migrations_today
        date == can.last_migration_date
    IN  IF ~can.ok
        THEN Outcome(MigrationResult(FALSE, old, None, "Daily migration limit reached"),
                     l, m, date, <<>>, FALSE)
        ELSE IF c.new_id = None
        THEN Outcome(MigrationResult(FALSE, old, None, "Failed to create successor sandbox"),
                     c.live, m, date, c.calls, FALSE)
        ELSE IF ~d.ok
        THEN Outcome(MigrationResult(FALSE, old, c.new_id, "Failed to deploy to successor"),
                     undo.live, m, date,
                     c.calls \o d.calls \o undo.calls, FALSE)
        ELSE IF ~v.ok
        THEN Outcome(MigrationResult(FALSE, old, c.new_id,
                                     "Successor failed health verification"),
                     undo.live, m, date,
                     c.calls \o d.calls \o v.calls \o undo.calls, TRUE)
        ELSE Outcome(MigrationResult(TRUE, old, c.new_id, ""),
                     g.live, g.migrations_today, date,
                     c.calls \o d.calls \o v.calls \o g.calls, TRUE)

-----------------------------------------------------------------------------
(* Reconciler: scripts/watchdog_check.py, with LifecycleManager.cleanup_orphans *)

WatchdogResult(action, id, killed, error) ==
    [action |-> action, sandbox_id |-> id, killed |-> killed, error |-> error]

NoWatchdog == WatchdogResult("none", None, <<>>, "")

WOutcome(result, l, cs, sn) == [result |-> result, live |-> l, calls |-> cs, seen |-> sn]

\* Mutant: everything that is not HEALTHY is replaced, UNKNOWN included.
NeedsReplacement_unknown(status) == status # HEALTHY

\* Mutant: only a DEAD sandbox is replaced, a STUCK one is left running.
NeedsReplacement_dead_only(status) == status = DEAD

\* `health.status in (HealthStatus.STUCK, HealthStatus.DEAD)`
NeedsReplacement(status) == status \in {STUCK, DEAD}

\* Mutant: the replacement is created and deployed before the calls that
\* were to come first.
Redeploy_creates_first(l, createOk, new_id, failAt, before, sn, killed, okAction, createErr, deployErr) ==
    LET c == create_successor(l, createOk, new_id)
        d == deploy_self(c.new_id, brain_repo_url, github_token, failAt)
        undo == kill(c.live, c.new_id)
    IN  IF c.new_id = None
        THEN WOutcome(WatchdogResult("failed", None, killed, createErr),
                      c.live, c.calls \o before, sn)
        ELSE IF ~d.ok
        THEN WOutcome(WatchdogResult("failed", None, killed, deployErr),
                      undo.live,
                      c.calls \o d.calls \o <<Call("kill", c.new_id, undo.ok)>> \o before,
                      sn)
        ELSE WOutcome(WatchdogResult(okAction, c.new_id, killed, ""),
                      c.live, c.calls \o d.calls \o before, sn)

\* Create + deploy a replacement; `before` are the calls already issued,
\* okAction the action reported on success.
Redeploy(l, createOk, new_id, failAt, before, sn, killed, okAction, createErr, deployErr) ==
    LET c == create_successor(l, createOk, new_id)
        d == deploy_self(c.new_id, brain_repo_url, github_token, failAt)
        undo == kill(c.live, c.new_id)
    IN  IF c.new_id = None
        THEN WOutcome(WatchdogResult("failed", None, killed, createErr),
                      c.live, before \o c.calls, sn)
        ELSE IF ~d.ok
        THEN WOutcome(WatchdogResult("failed", None, killed, deployErr),
                      undo.live,
                      before \o c.calls \o d.calls \o <<Call("kill", c.new_id, undo.ok)>>,
                      sn)
        ELSE WOutcome(WatchdogResult(okAction, c.new_id, killed, ""),
                      c.live, before \o c.calls \o d.calls, sn)

\* Mutant: a sandbox that could not be deployed to is left running.
handle_no_sandboxes_leaks(l, createOk, new_id, failAt) ==
    LET c == create_successor(l, createOk, new_id)
        d == deploy_self(c.new_id, brain_repo_url, github_token, failAt)
    IN  IF c.new_id = None
        THEN WOutcome(WatchdogResult("failed", None, <<>>, "Failed to create sandbox"),
                      c.live, c.calls, <<>>)
        ELSE IF ~d.ok
        THEN WOutcome(WatchdogResult("failed", None, <<>>,
                                     "Failed to deploy to new sandbox"),
                      c.live, c.calls \o d.calls, <<>>)
        ELSE WOutcome(WatchdogResult("deployed", c.new_id, <<>>, ""),
                      c.live, c.calls \o d.calls, <<>>)

handle_no_sandboxes(l, createOk, new_id, failAt) ==
    Redeploy(l, createOk, new_id, failAt, <<>>, <<>>, <<>>, "deployed",
             "Failed to create sandbox", "Failed to deploy to new sandbox")

\* Mutant: every sandbox whose health is known is killed and replaced.
handle_one_sandbox_replaces_known(l, h, sandbox_id, createOk, new_id, failAt) ==
    LET health == check_health(h[sandbox_id], DEFAULT_HEALTHY_THRESHOLD,
                               STUCK_THRESHOLD_S)
        sn == <<Seen(sandbox_id, health)>>
        checked == <<Call("check_health", sandbox_id, TRUE)>>
        k == kill(l, sandbox_id)
    IN  IF health.status # UNKNOWN
        THEN Redeploy(k.live, createOk, new_id, failAt,
                      Append(checked, Call("kill", sandbox_id, k.ok)), sn,
                      <<sandbox_id>>, "recovered",
                      "Killed stuck sandbox but failed to create replacement",
                      "Killed stuck sandbox but failed to deploy replacement")
        ELSE WOutcome(WatchdogResult("healthy", sandbox_id, <<>>, ""), l, checked, sn)

\* Mutant: only a sandbox that is gone or silent for the whole stuck
\* threshold is replaced; a STUCK one is left running.
handle_one_sandbox_spares_stuck(l, h, sandbox_id, createOk, new_id, failAt) ==
    LET health == check_health(h[sandbox_id], DEFAULT_HEALTHY_THRESHOLD,
                               STUCK_THRESHOLD_S)
        sn == <<Seen(sandbox_id, health)>>
        checked == <<Call("check_health", sandbox_id, TRUE)>>
        k == kill(l, sandbox_id)
    IN  IF health.status = DEAD
        THEN Redeploy(k.live, createOk, new_id, failAt,
                      Append(checked, Call("kill", sandbox_id, k.ok)), sn,
                      <<sandbox_id>>, "recovered",
                      "Killed stuck sandbox but failed to create replacement",
                      "Killed stuck sandbox but failed to deploy replacement")
        ELSE WOutcome(WatchdogResult("healthy", sandbox_id, <<>>, ""), l, checked, sn)

handle_one_sandbox(l, h, sandbox_id, createOk, new_id, failAt) ==
    LET health == check_health(h[sandbox_id], DEFAULT_HEALTHY_THRESHOLD,
                               STUCK_THRESHOLD_S)
        sn == <<Seen(sandbox_id, health)>>
        checked == <<Call("check_health", sandbox_id, TRUE)>>
        k == kill(l, sandbox_id)
    IN  IF health.status = HEALTHY
        THEN WOutcome(WatchdogResult("healthy", sandbox_id, <<>>, ""), l, checked, sn)
        ELSE IF NeedsReplacement(health.status)
        THEN Redeploy(k.live, createOk, new_id, failAt,
                      Append(checked, Call("kill", sandbox_id, k.ok)), sn,
                      <<sandbox_id>>, "recovered",
                      "Killed stuck sandbox but failed to create replacement",
                      "Killed stuck sandbox but failed to deploy replacement")
        ELSE WOutcome(WatchdogResult("healthy", sandbox_id, <<>>, ""), l, checked, sn)

\* The loop that picks the keeper: `health.seconds_since_heartbeat or inf`.
RECURSIVE PickBest(_, _, _, _, _)
PickBest(sandboxes, h, k, best_id, best_elapsed) ==
    IF k > Len(sandboxes) THEN best_id
    ELSE LET health == check_health(h[sandboxes[k]], DEFAULT_HEALTHY_THRESHOLD,
                                    DEFAULT_STUCK_THRESHOLD)
             elapsed == IF ~health.has_elapsed \/ health.seconds_since_heartbeat = 0
                        THEN Inf ELSE health.seconds_since_heartbeat
         IN  IF health.status = HEALTHY /\ elapsed < best_elapsed
             THEN PickBest(sandboxes, h, k + 1, sandboxes[k], elapsed)
             ELSE PickBest(sandboxes, h, k + 1, best_id, best_elapsed)

\* Mutant: the orphans are listed but none is killed.
cleanup_orphans_spares_all(listing, k, l, keep_sandbox_id, killed, cs) ==
    [killed |-> killed, live |-> l, calls |-> cs]

\* LifecycleManager.cleanup_orphans over the population it lists itself.
RECURSIVE cleanup_orphans(_, _, _, _, _, _)
cleanup_orphans(listing, k, l, keep_sandbox_id, killed, cs) ==
    IF k > Len(listing) THEN [killed |-> killed, live |-> l, calls |-> cs]
    ELSE IF listing[k] = keep_sandbox_id
    THEN cleanup_orphans(listing, k + 1, l, keep_sandbox_id, killed, cs)
    ELSE LET r == kill(l, listing[k])
         IN  cleanup_orphans(listing, k + 1, r.live, keep_sandbox_id,
                             IF r.ok THEN Append(killed, listing[k]) ELSE killed,
                             Append(cs, Call("kill", listing[k], r.ok)))

\* Mutant: the orphans are killed before the listed sandboxes are classified.
handle_multiple_sandboxes_kills_early(l, h, sandboxes, createOk, new_id, failAt, hb2, newcomer) ==
    LET first == [k \in 1..Len(sandboxes) |->
                    Seen(sandboxes[k],
                         check_health(h[sandboxes[k]], DEFAULT_HEALTHY_THRESHOLD,
                                      DEFAULT_STUCK_THRESHOLD))]
        checks == [k \in 1..Len(sandboxes) |-> Call("check_health", sandboxes[k], TRUE)]
        picked == PickBest(sandboxes, h, 1, None, Inf)
        best_id == IF picked = None THEN sandboxes[1] ELSE picked
        relisted == IF newcomer = None THEN l ELSE Append(l, newcomer)
        cl == cleanup_orphans(relisted, 1, relisted, best_id, <<>>,
                              <<Call("list_sandboxes", None, TRUE)>>)
        keeper_health == check_health(hb2, DEFAULT_HEALTHY_THRESHOLD, STUCK_THRESHOLD_S)
        sn == Append(first, Seen(best_id, keeper_health))
        cs == cl.calls \o checks \o <<Call("check_health", best_id, TRUE)>>
        k == kill(cl.live, best_id)
    IN  IF NeedsReplacement(keeper_health.status)
        THEN Redeploy(k.live, createOk, new_id, failAt,
                      Append(cs, Call("kill", best_id, k.ok)), sn,
                      Append(cl.killed, best_id), "recovered",
                      "All sandboxes unhealthy, failed to create replacement",
                      "All sandboxes unhealthy, failed to deploy replacement")
        ELSE WOutcome(WatchdogResult("cleaned", best_id, cl.killed, ""), cl.live, cs, sn)

\* newcomer: a sandbox that appears between the pass's listing and the
\* listing cleanup_orphans makes (None: nobody).  hb2: what the keeper's
\* heartbeat reads when it is checked again.
handle_multiple_sandboxes(l, h, sandboxes, createOk, new_id, failAt, hb2, newcomer) ==
    LET first == [k \in 1..Len(sandboxes) |->
                    Seen(sandboxes[k],
                         check_health(h[sandboxes[k]], DEFAULT_HEALTHY_THRESHOLD,
                                      DEFAULT_STUCK_THRESHOLD))]
        checks == [k \in 1..Len(sandboxes) |-> Call("check_health", sandboxes[k], TRUE)]
        picked == PickBest(sandboxes, h, 1, None, Inf)
        best_id == IF picked = None THEN sandboxes[1] ELSE picked
        relisted == IF newcomer = None THEN l ELSE Append(l, newcomer)
        cl == cleanup_orphans(relisted, 1, relisted, best_id, <<>>,
                              <<Call("list_sandboxes", None, TRUE)>>)
        keeper_health == check_health(hb2, DEFAULT_HEALTHY_THRESHOLD, STUCK_THRESHOLD_S)
        sn == Append(first, Seen(best_id, keeper_health))
        cs == checks \o cl.calls \o <<Call("check_health", best_id, TRUE)>>
        k == kill(cl.live, best_id)
    IN  IF NeedsReplacement(keeper_health.status)
        THEN Redeploy(k.live, createOk, new_id, failAt,
                      Append(cs, Call("kill", best_id, k.ok)), sn,
                      Append(cl.killed, best_id), "recovered",
                      "All sandboxes unhealthy, failed to create replacement",
                      "All sandboxes unhealthy, failed to deploy replacement")
        ELSE WOutcome(WatchdogResult("cleaned", best_id, cl.killed, ""), cl.live, cs, sn)

\* The pass over the population listed: the handler for its size, called with
\* a controller and a lifecycle manager that exist.
reconcile(l, h, createOk, new_id, failAt, hb2, newcomer) ==
    LET sandboxes == l
        listed == <<Call("list_sandboxes", None, TRUE)>>
        out == IF Len(sandboxes) = 0
               THEN handle_no_sandboxes(l, createOk, new_id, failAt)
               ELSE IF Len(sandboxes) = 1
               THEN handle_one_sandbox(l, h, sandboxes[1], createOk, new_id, failAt)
               ELSE handle_multiple_sandboxes(l, h, sandboxes, createOk, new_id,
                                              failAt, hb2, newcomer)
    IN  [out EXCEPT !.calls = listed \o out.calls]

\* `def __init__(self, api_key=None)`: the keyword the controller accepts.
SandboxController_init(keyword) == keyword = "api_key"

\* The call did not return: an exception left it.
Raised(error) == WatchdogResult("raised", None, <<>>, error)

\* run_watchdog builds its controller with `SandboxController(e2b_api_key=...)`
\* before it lists anything.
run_watchdog(l, h, createOk, new_id, failAt, hb2, newcomer) ==
    IF ~SandboxController_init("e2b_api_key")
    THEN WOutcome(Raised("TypeError"), l, <<>>, <<>>)
    ELSE reconcile(l, h, createOk, new_id, failAt, hb2, newcomer)

\* Exit statuses of the script.
EXIT_OK == 0
EXIT_FAILED == 1
EXIT_CONFIG == 2
NoExit == -1

\* main(): `sys.exit(1)` when the action is `failed`, a normal return
\* otherwise; an exception that leaves run_watchdog is not caught and ends
\* the interpreter with status 1.
sys_exit(result) ==
    IF result.action \in {"failed", "raised"} THEN EXIT_FAILED ELSE EXIT_OK

-----------------------------------------------------------------------------
(* Sync worker: git_sync.py.  One GitSync instance, the thread that calls  *)
(* start() and stop(), the thread that calls queue_sync(), and the         *)
(* consumer threads the instance creates.  A step is what a thread does    *)
(* between two points where another thread can run: a read of _running, a  *)
(* queue operation, one attempt of _do_sync.                                *)

MAX_RETRIES == 3

Entries == 1..MaxEntries
Threads == 1..MaxThreads
Sentinel == None

SyncResult(entry, status, attempts, error, logged) ==
    [entry |-> entry, status |-> status, attempts |-> attempts,
     error |-> error, logged |-> logged]

\* What a thread holds while it is in _worker: its position, the entry it
\* took from the queue, the attempt it is at and the last error it caught.
Consumer(pc, entry, attempt, last_error) ==
    [pc |-> pc, entry |-> entry, attempt |-> attempt, last_error |-> last_error]

Unborn == Consumer("unborn", None, 0, "")
AtLoop == Consumer("loop", None, 0, "")
AtGet == Consumer("get", None, 0, "")
Exited == Consumer("exited", None, 0, "")

is_alive_thread(c) == c.pc \notin {"unborn", "exited"}

Alive == {t \in Threads : is_alive_thread(consumers[t])}

\* put_nowait on a queue without a capacity.
put_nowait_unbounded(q, item) == [full |-> FALSE, queue |-> Append(q, item)]

\* queue.Queue.put_nowait: the item goes in unless the queue is full.
put_nowait(q, item) ==
    IF Len(q) >= MAX_QUEUE_SIZE
    THEN [full |-> TRUE, queue |-> q]
    ELSE [full |-> FALSE, queue |-> Append(q, item)]

\* _do_sync, were the staged-diff check not there.
do_sync_always_commits(e, st, lo, changed, addOk, commitOk, pushOk) ==
    LET add == <<Call("git add", e, addOk)>>
        idx == st \/ changed
        diff == add \o <<Call("git diff --cached --quiet", e, ~idx)>>
        commit == diff \o <<Call("git commit", e, commitOk)>>
        push == commit \o <<Call("git rev-parse", e, TRUE),
                            Call("git push", e, pushOk)>>
    IN  IF ~addOk
        THEN [raised |-> TRUE, error |-> "git add failed", commit_hash |-> "",
              staged |-> st, local |-> lo, calls |-> add]
        ELSE IF ~commitOk
        THEN [raised |-> TRUE, error |-> "git commit failed", commit_hash |-> "",
              staged |-> idx, local |-> lo, calls |-> commit]
        ELSE IF ~pushOk
        THEN [raised |-> TRUE, error |-> "git push failed", commit_hash |-> "",
              staged |-> FALSE, local |-> lo \cup {e}, calls |-> push]
        ELSE [raised |-> FALSE, error |-> "", commit_hash |-> "hash",
              staged |-> FALSE, local |-> {}, calls |-> push]

\* One run of _do_sync for entry e on a repository whose index holds
\* changes (st) and whose local branch holds the unpushed commits of lo.
\* changed: git add finds something new in the entry's files.
do_sync(e, st, lo, changed, addOk, commitOk, pushOk) ==
    LET add == <<Call("git add", e, addOk)>>
        idx == st \/ changed
        diff == add \o <<Call("git diff --cached --quiet", e, ~idx)>>
        commit == diff \o <<Call("git commit", e, commitOk)>>
        push == commit \o <<Call("git rev-parse", e, TRUE),
                            Call("git push", e, pushOk)>>
    IN  IF ~addOk
        THEN [raised |-> TRUE, error |-> "git add failed", commit_hash |-> "",
              staged |-> st, local |-> lo, calls |-> add]
        ELSE IF ~idx
        THEN [raised |-> FALSE, error |-> "", commit_hash |-> "skipped",
              staged |-> FALSE, local |-> lo, calls |-> diff]
        ELSE IF ~commitOk
        THEN [raised |-> TRUE, error |-> "git commit failed", commit_hash |-> "",
              staged |-> TRUE, local |-> lo, calls |-> commit]
        ELSE IF ~pushOk
        THEN [raised |-> TRUE, error |-> "git push failed", commit_hash |-> "",
              staged |-> FALSE, local |-> lo \cup {e}, calls |-> push]
        ELSE [raised |-> FALSE, error |-> "", commit_hash |-> "hash",
              staged |-> FALSE, local |-> {}, calls |-> push]

\* _log_result, were the line written whatever the tracker path.
log_result_always(path, writeOk) == TRUE

\* _log_result: the line is written when a tracker path is set and the
\* write goes through.
log_result(path, writeOk) == path /\ writeOk

\* process_attempt, were the first failure final.
process_attempt_no_retry(c, out, syncs, failures, path, writeOk) ==
    IF ~out.raised
    THEN [consumer |-> AtLoop, total_syncs |-> syncs + 1,
          total_failures |-> failures,
          result |-> <<SyncResult(c.entry,
                         IF out.commit_hash = "skipped" THEN "skipped" ELSE "success",
                         c.attempt, "", log_result(path, writeOk))>>]
    ELSE [consumer |-> AtLoop, total_syncs |-> syncs,
          total_failures |-> failures + 1,
          result |-> <<SyncResult(c.entry, "failed", MAX_RETRIES, out.error,
                                  log_result(path, writeOk))>>]

\* One turn of the retry loop of _process_entry, with what follows the loop
\* when the turn was the last: the consumer afterwards, the counters, and
\* the SyncResult if the entry reached a terminal outcome.
process_attempt(c, out, syncs, failures, path, writeOk) ==
    IF ~out.raised
    THEN [consumer |-> AtLoop, total_syncs |-> syncs + 1,
          total_failures |-> failures,
          result |-> <<SyncResult(c.entry,
                         IF out.commit_hash = "skipped" THEN "skipped" ELSE "success",
                         c.attempt, "", log_result(path, writeOk))>>]
    ELSE IF c.attempt < MAX_RETRIES
    THEN [consumer |-> Consumer("sync", c.entry, c.attempt + 1, out.error),
          total_syncs |-> syncs, total_failures |-> failures, result |-> <<>>]
    ELSE [consumer |-> AtLoop, total_syncs |-> syncs,
          total_failures |-> failures + 1,
          result |-> <<SyncResult(c.entry, "failed", MAX_RETRIES, out.error,
                                  log_result(path, writeOk))>>]

Idle == [pc |-> "idle", entry |-> None]

\* The instance as constructed; paths: whether a tracker path was given.
SyncInit(paths) ==
    /\ running = FALSE
    /\ thread = None
    /\ queue = <<>>
    /\ total_syncs = 0
    /\ total_failures = 0
    /\ tracker_path \in paths
    /\ results = <<>>
    /\ consumers = [t \in Threads |-> Unborn]
    /\ ctl = "idle"
    /\ prod = Idle
    /\ accepted = {}
    /\ ret = FALSE
    /\ staged = FALSE
    /\ local = {}
    /\ tries = [e \in Entries |-> 0]
    /\ at_stop = {}

-----------------------------------------------------------------------------
(* State *)

\* The population a pass started from is exactly one sandbox that classifies
\* HEALTHY.
OneHealthyPopulation(snap) ==
    /\ Len(snap.live) = 1
    /\ snap.status[1] = HEALTHY

NoPass == [action |-> "none", sandbox_id |-> None, one_healthy |-> FALSE]

Snapshot ==
    [live |-> live,
     status |-> [k \in 1..Len(live) |->
                   check_health(hb[live[k]], DEFAULT_HEALTHY_THRESHOLD,
                                STUCK_THRESHOLD_S).status],
     migrations_today |-> migrations_today,
     last_migration_date |-> last_migration_date, today |-> today]

\* Heartbeats after an operation: a sandbox that is gone shows nothing.
Settle(l, h) == [i \in Ids |-> IF i \in Range(l) THEN h[i] ELSE NoFileGone]

\* The two callers of create_successor that may overlap.
Callers == {"first", "second"}

\* A caller that is not inside create_successor, and one that has counted
\* `active` sandboxes and not yet created.
NotCounting == [pc |-> "idle", active |-> 0]

Counted(active) == [pc |-> "counted", active |-> active]

Init ==
    /\ live \in {<<>>, <<1>>}
    /\ hb = Settle(live, [i \in Ids |-> Beat(5)])
    /\ today = 1
    /\ migrations_today = 0
    /\ last_migration_date = 0
    /\ op = "init"
    /\ calls = <<>>
    /\ mres = NoMigration
    /\ wres = NoWatchdog
    /\ seen = <<>>
    /\ pre = Snapshot
    /\ prev = NoPass
    /\ allowed = TRUE
    /\ hin = NoInput
    /\ hres = NoHealth
    /\ exit_code = NoExit
    /\ SyncInit({FALSE})
    /\ successes = 0
    /\ passes = [p \in Callers |-> NotCounting]

-----------------------------------------------------------------------------
(* Environment: the provisioning service, the workers and the clock *)

EnvStep ==
    /\ op' = "env"
    /\ calls' = <<>>
    /\ mres' = NoMigration
    /\ wres' = NoWatchdog
    /\ seen' = <<>>
    /\ pre' = Snapshot'
    /\ prev' = NoPass
    /\ exit_code' = NoExit
    /\ UNCHANGED <<allowed, hin, hres>>
    /\ UNCHANGED <<SyncVars, successes, passes>>

\* A sandbox appears that no operation of this process created.
Spawn(i) ==
    /\ i \notin Range(live)
    /\ Len(live) < MaxLive
    /\ live' = <<i>> \o live
    /\ hb' = [hb EXCEPT ![i] = NoFileRunning]
    /\ UNCHANGED <<today, migrations_today, last_migration_date>>
    /\ EnvStep

\* A sandbox times out or crashes on its own.
Expire(i) ==
    /\ i \in Range(live)
    /\ live' = Remove(live, i)
    /\ hb' = Settle(live', hb)
    /\ UNCHANGED <<today, migrations_today, last_migration_date>>
    /\ EnvStep

\* The worker in sandbox i writes a heartbeat, stops writing, or time passes.
WorkerBeat(i, h) ==
    /\ i \in Range(live)
    /\ hb[i] # h
    /\ hb' = [hb EXCEPT ![i] = h]
    /\ UNCHANGED <<live, today, migrations_today, last_migration_date>>
    /\ EnvStep

\* Midnight UTC passes.
NextDay ==
    /\ today < MaxDay
    /\ today' = today + 1
    /\ UNCHANGED <<live, hb, migrations_today, last_migration_date>>
    /\ EnvStep

-----------------------------------------------------------------------------
(* Operations of the migration state machine *)

\* What a poll of the successor can read: nothing yet, a fresh beat, a stale one.
PollStates == {NoFileRunning, Beat(5), Beat(DEFAULT_HEALTHY_THRESHOLD)}

\* MaxPolls polls fit in the verification timeout; the polls that would come
\* after the first HEALTHY one are not made and are held at one value.
PollSeqs ==
    {obs \in [1..MaxPolls -> PollStates] :
        \A k \in 1..MaxPolls :
            obs[k] = Beat(5) => \A j \in (k + 1)..MaxPolls : obs[j] = NoFileRunning}

NoPolls == [k \in 1..MaxPolls |-> NoFileRunning]

\* The id the provisioning service hands out next: one not in use.
NewId(old) ==
    LET free == Ids \ (Range(live) \cup {old})
    IN  IF free = {} THEN None ELSE CHOOSE i \in free : \A j \in free : i <= j

\* Inputs a run does not consume are held at one value.
FailAts(createOk) == IF createOk THEN 0..DeploySteps ELSE {0}

Polls(createOk, failAt) == IF createOk /\ failAt = 0 THEN PollSeqs ELSE {NoPolls}

AuditOks(obs) == IF \E k \in 1..MaxPolls : obs[k] = Beat(5) THEN BOOLEAN ELSE {TRUE}

\* The history count restarts where _reset_daily_counter restarts the counter.
SuccessesAfterReset == IF today # last_migration_date THEN 0 ELSE successes

CanMigrate ==
    LET can == can_migrate(migrations_today, last_migration_date, today)
    IN  /\ allowed' = can.ok
        /\ migrations_today' = can.migrations_today
        /\ last_migration_date' = can.last_migration_date
        /\ op' = "can_migrate"
        /\ calls' = <<>>
        /\ pre' = Snapshot
        /\ prev' = NoPass
        /\ mres' = NoMigration
        /\ wres' = NoWatchdog
        /\ seen' = <<>>
        /\ exit_code' = NoExit
        /\ successes' = SuccessesAfterReset
        /\ UNCHANGED <<live, hb, today, hin, hres>>
        /\ UNCHANGED <<SyncVars, passes>>

\* The history count is capped one above the daily limit.
Migrate(old, createOk, new_id, failAt, obs, auditOk) ==
    \E out \in {migrate(live, migrations_today, last_migration_date, today,
                        old, createOk, new_id, failAt, obs, auditOk)} :
    LET new == out.result.new_sandbox_id
        shown == IF out.verified
                 THEN obs[verify_successor(new, obs).polls]
                 ELSE NoFileRunning
    IN  /\ mres' = out.result
        /\ live' = out.live
        /\ hb' = Settle(out.live, IF new = None THEN hb
                                  ELSE [hb EXCEPT ![new] = shown])
        /\ migrations_today' = out.migrations_today
        /\ last_migration_date' = out.last_migration_date
        /\ calls' = out.calls
        /\ op' = "migrate"
        /\ pre' = Snapshot
        /\ prev' = NoPass
        /\ wres' = NoWatchdog
        /\ seen' = IF out.verified THEN verify_successor(new, obs).seen ELSE <<>>
        /\ exit_code' = NoExit
        /\ SuccessesAfterReset <= max_migrations_per_day
        /\ successes' = IF out.result.success THEN SuccessesAfterReset + 1
                        ELSE SuccessesAfterReset
        /\ UNCHANGED <<today, allowed, hin, hres>>
        /\ UNCHANGED <<SyncVars, passes>>

\* The sandbox migrate() is called for: one that is live, or one that is
\* gone already (all of those behave alike).
Olds == Range(live) \cup {CHOOSE i \in Ids \ Range(live) : \A j \in Ids \ Range(live) : i <= j}

Next ==
    \/ \E i \in Ids : Expire(i)
    \/ NextDay
    \/ CanMigrate
    \/ \E old \in Olds, createOk \in BOOLEAN :
          \E failAt \in FailAts(createOk) :
             \E obs \in Polls(createOk, failAt) :
                \E auditOk \in AuditOks(obs) :
                   Migrate(old, createOk, NewId(old), failAt, obs, auditOk)

Spec == Init /\ [][Next]_vars

-----------------------------------------------------------------------------
(* The reconcile pass and its environment *)

FreeIds == Ids \ Range(live)

Least(S) == IF S = {} THEN None ELSE CHOOSE i \in S : \A j \in S : i <= j

\* Inputs a pass does not consume are held at one value; a sandbox can
\* appear mid-pass only while an id is left for the replacement.
Newcomers ==
    IF Len(live) >= 2 /\ Cardinality(FreeIds) >= 2 THEN {None, Least(FreeIds)}
    ELSE {None}

Rechecks == IF Len(live) >= 2 THEN HBStates ELSE {NoFileRunning}

\* The pass gets as far as creating a sandbox: nothing is listed, or the one
\* sandbox (the keeper, of several) is STUCK or DEAD.
Creates(hb2) ==
    \/ Len(live) = 0
    \/ /\ Len(live) = 1
       /\ NeedsReplacement(check_health(hb[live[1]], DEFAULT_HEALTHY_THRESHOLD,
                                        STUCK_THRESHOLD_S).status)
    \/ /\ Len(live) >= 2
       /\ NeedsReplacement(check_health(hb2, DEFAULT_HEALTHY_THRESHOLD,
                                        STUCK_THRESHOLD_S).status)

CreateOks(new_id, hb2) == IF new_id = None \/ ~Creates(hb2) THEN {FALSE} ELSE BOOLEAN

\* The inputs run_watchdog consumes: those of the pass once its controller
\* is built, one held value when it is not.
Entered(S, held) == IF SandboxController_init("e2b_api_key") THEN S ELSE {held}

\* What a pass leaves behind, whichever way it was entered.
Pass(name, out, hb2) ==
    LET kept == out.result.sandbox_id
        h1 == IF Len(live) >= 2 /\ out.result.action = "cleaned"
              THEN [hb EXCEPT ![kept] = hb2] ELSE hb
        h2 == IF out.result.action \in {"deployed", "recovered"}
              THEN [h1 EXCEPT ![kept] = NoFileRunning] ELSE h1
    IN  /\ wres' = out.result
        /\ live' = out.live
        /\ hb' = Settle(out.live, h2)
        /\ calls' = out.calls
        /\ seen' = out.seen
        /\ op' = name
        /\ pre' = Snapshot
        /\ prev' = IF op = name
                   THEN [action |-> wres.action, sandbox_id |-> wres.sandbox_id,
                         one_healthy |-> OneHealthyPopulation(pre)]
                   ELSE NoPass
        /\ mres' = NoMigration
        /\ exit_code' = sys_exit(out.result)
        /\ UNCHANGED <<today, migrations_today, last_migration_date, allowed, hin, hres>>
        /\ UNCHANGED <<SyncVars, successes, passes>>

\* The script's entry point is called.
RunWatchdog(createOk, new_id, failAt, hb2, newcomer) ==
    \E out \in {run_watchdog(live, hb, createOk, new_id, failAt, hb2, newcomer)} :
        Pass("run_watchdog", out, hb2)

\* The handlers are called on the listing with collaborators handed in.
Reconcile(createOk, new_id, failAt, hb2, newcomer) ==
    \E out \in {reconcile(live, hb, createOk, new_id, failAt, hb2, newcomer)} :
        Pass("reconcile", out, hb2)

\* The script runs as scheduled; envOk: the three environment variables
\* are set.
Main(envOk, createOk, new_id, failAt, hb2, newcomer) ==
    IF envOk
    THEN \E out \in {run_watchdog(live, hb, createOk, new_id, failAt, hb2, newcomer)} :
            Pass("main", out, hb2)
    ELSE /\ op' = "main"
         /\ exit_code' = EXIT_CONFIG
         /\ wres' = NoWatchdog
         /\ calls' = <<>>
         /\ seen' = <<>>
         /\ pre' = Snapshot
         /\ prev' = NoPass
         /\ mres' = NoMigration
         /\ UNCHANGED <<live, hb, today, migrations_today, last_migration_date,
                        allowed, hin, hres>>
         /\ UNCHANGED <<SyncVars, successes, passes>>

NextWatchdog ==
    \/ \E i \in Ids : Spawn(i)
    \/ \E i \in Ids : Expire(i)
    \/ \E i \in Ids, h \in HBStates : WorkerBeat(i, h)
    \/ \E newcomer \in Newcomers, hb2 \in Rechecks :
          \E createOk \in CreateOks(Least(FreeIds \ {newcomer}), hb2) :
             \E failAt \in FailAts(createOk) :
                Reconcile(createOk, Least(FreeIds \ {newcomer}), failAt, hb2, newcomer)
    \/ \E newcomer \in Entered(Newcomers, None), hb2 \in Entered(Rechecks, NoFileRunning) :
          \E createOk \in Entered(CreateOks(Least(FreeIds \ {newcomer}), hb2), FALSE) :
             \E failAt \in FailAts(createOk) :
                RunWatchdog(createOk, Least(FreeIds \ {newcomer}), failAt, hb2, newcomer)
    \/ \E envOk \in BOOLEAN :
          \E newcomer \in Entered(Newcomers, None), hb2 \in Entered(Rechecks, NoFileRunning) :
             \E createOk \in Entered(CreateOks(Least(FreeIds \ {newcomer}), hb2), FALSE) :
                \E failAt \in FailAts(createOk) :
                   Main(envOk, createOk, Least(FreeIds \ {newcomer}), failAt, hb2, newcomer)

SpecWatchdog == Init /\ [][NextWatchdog]_vars

-----------------------------------------------------------------------------
(* The health check on its own *)

(* create_successor step by step, with two callers that may overlap *)

\* What a step of create_successor leaves of the last operation's record.
OverlapStep ==
    /\ mres' = NoMigration
    /\ wres' = NoWatchdog
    /\ seen' = <<>>
    /\ pre' = Snapshot
    /\ prev' = NoPass
    /\ exit_code' = NoExit
    /\ UNCHANGED <<today, migrations_today, last_migration_date, allowed, hin, hres,
                   successes>>
    /\ UNCHANGED SyncVars

\* Caller p lists the sandboxes and compares their number with the limit: at
\* the limit it returns None, below it it goes on to create.
CountActive(p) ==
    /\ passes[p] = NotCounting
    /\ \E active \in {check_concurrent_sandboxes(live)} :
          passes' = [passes EXCEPT ![p] =
                        IF active >= MAX_CONCURRENT_SANDBOXES THEN NotCounting
                        ELSE Counted(active)]
    /\ op' = "count"
    /\ calls' = <<Call("list_sandboxes", None, TRUE)>>
    /\ UNCHANGED <<live, hb>>
    /\ OverlapStep

\* Caller p, having counted fewer sandboxes than the limit, calls
\* Sandbox.create.
SandboxCreate(p, createOk) ==
    /\ passes[p].pc = "counted"
    /\ Least(FreeIds) # None
    /\ live' = IF createOk THEN Append(live, Least(FreeIds)) ELSE live
    /\ hb' = IF createOk THEN [hb EXCEPT ![Least(FreeIds)] = NoFileRunning] ELSE hb
    /\ passes' = [passes EXCEPT ![p] = NotCounting]
    /\ op' = "create"
    /\ calls' = <<Call("create", IF createOk THEN Least(FreeIds) ELSE None, createOk)>>
    /\ OverlapStep

NextOverlap ==
    \/ \E i \in Ids : Expire(i)
    \/ \E p \in Callers : CountActive(p)
    \/ \E p \in Callers, createOk \in BOOLEAN : SandboxCreate(p, createOk)

SpecOverlap == Init /\ [][NextOverlap]_vars

-----------------------------------------------------------------------------

(* A process that dies inside migrate(), and the pass that follows *)

\* The population after the collaborator calls cs took effect, in order.
RECURSIVE LiveAfter(_, _)
LiveAfter(l, cs) ==
    IF cs = <<>> THEN l
    ELSE LET c == Head(cs)
         IN  LiveAfter(IF c.call = "create" /\ c.ok THEN Append(l, c.id)
                       ELSE IF c.call = "kill" /\ c.ok THEN Remove(l, c.id)
                       ELSE l,
                       Tail(cs))

\* How many of the calls cs are verification polls.
PollsIn(cs) == Cardinality({k \in 1..Len(cs) : cs[k].call = "check_health"})

\* The process running migrate() dies after the first n collaborator calls
\* took effect: no result is returned, and the manager with its counter is
\* gone with the process.
MigrateCrash(old, createOk, new_id, failAt, obs, auditOk, n) ==
    \E out \in {migrate(live, migrations_today, last_migration_date, today,
                        old, createOk, new_id, failAt, obs, auditOk)} :
    LET done == SubSeq(out.calls, 1, n)
        shown == IF PollsIn(done) = 0 THEN NoFileRunning ELSE obs[PollsIn(done)]
    IN  /\ n <= Len(out.calls)
        /\ live' = LiveAfter(live, done)
        /\ hb' = Settle(live', IF new_id = None THEN hb
                               ELSE [hb EXCEPT ![new_id] = shown])
        /\ migrations_today' = 0
        /\ last_migration_date' = 0
        /\ successes' = 0
        /\ calls' = done
        /\ op' = "crash"
        /\ mres' = NoMigration
        /\ wres' = NoWatchdog
        /\ seen' = <<>>
        /\ pre' = Snapshot
        /\ prev' = NoPass
        /\ exit_code' = NoExit
        /\ UNCHANGED <<today, allowed, hin, hres>>
        /\ UNCHANGED <<SyncVars, passes>>

\* The most calls one migrate() issues: list, create, the deploy steps, the
\* polls, the audit note and the kill.
MaxCalls == 2 + DeploySteps + MaxPolls + 2

NextCrash ==
    \/ \E i \in Ids, h \in HBStates : WorkerBeat(i, h)
    \/ \E old \in Olds, createOk \in BOOLEAN :
          \E failAt \in FailAts(createOk) :
             \E obs \in Polls(createOk, failAt) :
                \E auditOk \in AuditOks(obs), n \in 0..MaxCalls :
                   MigrateCrash(old, createOk, NewId(old), failAt, obs, auditOk, n)
    \/ \E hb2 \in Rechecks :
          \E createOk \in CreateOks(Least(FreeIds), hb2) :
             \E failAt \in FailAts(createOk) :
                Reconcile(createOk, Least(FreeIds), failAt, hb2, None)

SpecCrash == Init /\ [][NextCrash]_vars

-----------------------------------------------------------------------------

(* Passes that repeat on schedule, with collaborators that do not fail *)

\* A pass whose create, deploy and kill calls succeed and during which no
\* sandbox appears.
GoodPass ==
    \E hb2 \in Rechecks :
       \E createOk \in {Creates(hb2) /\ Least(FreeIds) # None} :
          Reconcile(createOk, Least(FreeIds), 0, hb2, None)

\* No sandbox, or one, its worker in any state.
InitRepair ==
    /\ live \in {<<>>} \cup {<<i>> : i \in Ids}
    /\ \E h \in HBStates : hb = Settle(live, [i \in Ids |-> h])
    /\ Init!3 /\ Init!4 /\ Init!5 /\ Init!6 /\ Init!7 /\ Init!8 /\ Init!9
    /\ Init!10 /\ Init!11 /\ Init!12 /\ Init!13 /\ Init!14 /\ Init!15
    /\ Init!16 /\ Init!17 /\ Init!18 /\ Init!19

NextRepair ==
    \/ \E i \in Ids : Expire(i)
    \/ \E i \in Ids, h \in HBStates : WorkerBeat(i, h)
    \/ GoodPass
    \/ \E hb2 \in Rechecks :
          \E createOk \in CreateOks(Least(FreeIds), hb2) :
             \E failAt \in FailAts(createOk) :
                Reconcile(createOk, Least(FreeIds), failAt, hb2, None)

\* The scheduler runs the script again and again, and passes whose calls
\* succeed keep coming.  Nothing is assumed of the sandboxes and their workers.
SpecRepair == InitRepair /\ [][NextRepair]_vars /\ WF_vars(GoodPass)

-----------------------------------------------------------------------------

InitHealth ==
    /\ Init!1 /\ Init!2 /\ Init!3 /\ Init!4 /\ Init!5 /\ Init!6 /\ Init!7
    /\ Init!8 /\ Init!9 /\ Init!10 /\ Init!11 /\ Init!12 /\ Init!13 /\ Init!16
    /\ Init!17 /\ Init!18 /\ Init!19
    /\ hin \in HealthInputs
    /\ hres = NoHealth

CheckHealth ==
    /\ op = "init"
    /\ hres' = check_health(hin, hin.healthy_threshold, hin.stuck_threshold)
    /\ op' = "check_health"
    /\ UNCHANGED <<live, hb, today, migrations_today, last_migration_date, calls,
                   mres, wres, seen, pre, prev, allowed, hin, exit_code>>
    /\ UNCHANGED <<SyncVars, successes, passes>>

NextHealth == CheckHealth

SpecHealth == InitHealth /\ [][NextHealth]_vars

-----------------------------------------------------------------------------
(* The sync worker and its callers *)

InitSync ==
    /\ live = <<>>
    /\ Init!2 /\ Init!3 /\ Init!4 /\ Init!5 /\ Init!6 /\ Init!7
    /\ Init!8 /\ Init!9 /\ Init!10 /\ Init!11 /\ Init!12 /\ Init!13 /\ Init!14
    /\ Init!15 /\ Init!16 /\ Init!18 /\ Init!19
    /\ SyncInit(BOOLEAN)

\* A step that runs no git command.
NoGit == UNCHANGED <<calls, ControlVars>>

\* start(): nothing when already running, else the flag goes up and a new
\* daemon thread enters _worker.
Start ==
    /\ ctl = "idle"
    /\ IF running
       THEN UNCHANGED <<running, thread, consumers>>
       ELSE \E t \in Threads :
               /\ consumers[t] = Unborn
               /\ \A u \in Threads : u < t => consumers[u] # Unborn
               /\ running' = TRUE
               /\ thread' = t
               /\ consumers' = [consumers EXCEPT ![t] = AtLoop]
    /\ UNCHANGED <<queue, total_syncs, total_failures, tracker_path, results, ctl,
                   prod, accepted, ret, staged, local, tries,
              at_stop>>
    /\ NoGit

\* stop() up to the write of _running: nothing when not running.
StopFlag ==
    /\ ctl = "idle"
    /\ IF running
       THEN /\ running' = FALSE
            /\ ctl' = "stop_put"
            /\ at_stop' = Range(queue) \ {Sentinel}
       ELSE UNCHANGED <<running, ctl, at_stop>>
    /\ UNCHANGED <<thread, queue, total_syncs, total_failures, tracker_path, results,
                   consumers, prod, accepted, ret, staged, local, tries>>
    /\ NoGit

\* stop(): the sentinel is put unless the queue is full.
StopSentinel ==
    /\ ctl = "stop_put"
    /\ queue' = put_nowait(queue, Sentinel).queue
    /\ ctl' = IF thread # None THEN "stop_join" ELSE "idle"
    /\ UNCHANGED <<running, thread, total_syncs, total_failures, tracker_path, results,
                   consumers, prod, accepted, ret, staged, local, tries,
              at_stop>>
    /\ NoGit

\* The join of stop() can run into its timeout (10 s) while the thread has
\* an entry in _process_entry or entries left to take; a thread that only
\* has the sentinel to pass over or an empty queue to poll (1 s) leaves first.
JoinMayTimeOut ==
    \/ consumers[thread].pc = "sync"
    \/ Range(queue) \ {Sentinel} # {}

\* stop(): join returns, the thread is forgotten whether it ended or not.
StopJoin ==
    /\ ctl = "stop_join"
    /\ consumers[thread].pc = "exited" \/ JoinMayTimeOut
    /\ thread' = None
    /\ ctl' = "idle"
    /\ UNCHANGED <<running, queue, total_syncs, total_failures, tracker_path, results,
                   consumers, prod, accepted, ret, staged, local, tries,
              at_stop>>
    /\ NoGit

\* queue_sync() up to its read of _running, for the next entry.
QueueCheck ==
    /\ prod.pc = "idle"
    /\ prod.entry < MaxEntries
    /\ IF running
       THEN prod' = [pc |-> "put", entry |-> prod.entry + 1] /\ UNCHANGED ret
       ELSE prod' = [pc |-> "idle", entry |-> prod.entry + 1] /\ ret' = FALSE
    /\ UNCHANGED <<running, thread, queue, total_syncs, total_failures, tracker_path,
                   results, consumers, ctl, accepted, staged, local, tries,
              at_stop>>
    /\ NoGit

\* queue_sync(): put_nowait and the return.
QueuePut ==
    /\ prod.pc = "put"
    /\ \E put \in {put_nowait(queue, prod.entry)} :
        /\ queue' = put.queue
        /\ ret' = ~put.full
        /\ accepted' = IF put.full THEN accepted ELSE accepted \cup {prod.entry}
    /\ prod' = [prod EXCEPT !.pc = "idle"]
    /\ UNCHANGED <<running, thread, total_syncs, total_failures, tracker_path,
                   results, consumers, ctl, staged, local, tries,
              at_stop>>
    /\ NoGit

\* The loop condition, were it `while self._running`.
LoopCheck_flag_only(t) ==
    /\ consumers[t].pc = "loop"
    /\ consumers' = [consumers EXCEPT ![t] = IF running THEN AtGet ELSE Exited]
    /\ UNCHANGED <<running, thread, queue, total_syncs, total_failures, tracker_path,
                   results, ctl, prod, accepted, ret, staged, local, tries,
                   at_stop>>
    /\ NoGit

\* _worker: the loop condition.  Its two reads are one step: the second is
\* only made when _running was read False, and only start() raises it again.
LoopCheck(t) ==
    /\ consumers[t].pc = "loop"
    /\ consumers' = [consumers EXCEPT ![t] =
                        IF running \/ queue # <<>> THEN AtGet ELSE Exited]
    /\ UNCHANGED <<running, thread, queue, total_syncs, total_failures, tracker_path,
                   results, ctl, prod, accepted, ret, staged, local, tries,
              at_stop>>
    /\ NoGit

\* _worker: get(timeout=1.0) hands over the oldest item, or gives up on an
\* empty queue; the sentinel is passed over.
Get(t) ==
    /\ consumers[t].pc = "get"
    /\ IF queue = <<>>
       THEN /\ consumers' = [consumers EXCEPT ![t] = AtLoop]
            /\ UNCHANGED queue
       ELSE /\ queue' = Tail(queue)
            /\ consumers' = [consumers EXCEPT ![t] =
                                IF Head(queue) = Sentinel THEN AtLoop
                                ELSE Consumer("sync", Head(queue), 1, "")]
    /\ UNCHANGED <<running, thread, total_syncs, total_failures, tracker_path,
                   results, ctl, prod, accepted, ret, staged, local, tries,
              at_stop>>
    /\ NoGit

\* What one run of git can meet: the later inputs only where they are read.
GitRuns ==
    {r \in [changed : BOOLEAN, addOk : BOOLEAN, commitOk : BOOLEAN, pushOk : BOOLEAN] :
        /\ ~r.addOk => (~r.changed /\ r.commitOk /\ r.pushOk)
        /\ (r.addOk /\ ~(staged \/ r.changed)) => (r.commitOk /\ r.pushOk)
        /\ ~r.commitOk => r.pushOk}

WriteOks == IF tracker_path THEN BOOLEAN ELSE {TRUE}

\* _process_entry: one attempt, and the bookkeeping if it was the last.
Attempt(t, r, writeOk) ==
    /\ consumers[t].pc = "sync"
    /\ \E out \in {do_sync(consumers[t].entry, staged, local,
                           r.changed, r.addOk, r.commitOk, r.pushOk)} :
       \E after \in {process_attempt(consumers[t], out, total_syncs,
                                     total_failures, tracker_path, writeOk)} :
        /\ consumers' = [consumers EXCEPT ![t] = after.consumer]
        /\ total_syncs' = after.total_syncs
        /\ total_failures' = after.total_failures
        /\ results' = results \o after.result
        /\ staged' = out.staged
        /\ local' = out.local
        /\ tries' = [tries EXCEPT ![consumers[t].entry] = @ + 1]
        /\ calls' = out.calls
        /\ UNCHANGED ControlVars
    /\ UNCHANGED <<running, thread, queue, tracker_path, ctl, prod, accepted, ret,
                   at_stop>>

\* A worker that is started once and fed by its producer, with everything
\* git and the tracker file can do.
NextSync ==
    \/ Start
    \/ QueueCheck
    \/ QueuePut
    \/ \E t \in Threads : LoopCheck(t)
    \/ \E t \in Threads : Get(t)
    \/ \E t \in Threads, r \in GitRuns, writeOk \in WriteOks : Attempt(t, r, writeOk)

SpecSync == InitSync /\ [][NextSync]_vars

\* The instance under start(), stop() and queue_sync() from two callers,
\* on a repository and a tracker file that work.
GoodRuns == {r \in GitRuns : r.addOk /\ r.commitOk /\ r.pushOk}

InitSyncThreads ==
    /\ InitSync!1 /\ InitSync!2 /\ InitSync!3 /\ InitSync!4
    /\ SyncInit({TRUE})

NextSyncThreads ==
    \/ Start
    \/ StopFlag
    \/ StopSentinel
    \/ StopJoin
    \/ QueueCheck
    \/ QueuePut
    \/ \E t \in Threads : LoopCheck(t)
    \/ \E t \in Threads : Get(t)
    \/ \E t \in Threads, r \in GoodRuns : Attempt(t, r, TRUE)

SpecSyncThreads == InitSyncThreads /\ [][NextSyncThreads]_vars

\* git add may fail or find nothing new; commit and push go through.
LiveRuns == {r \in GitRuns : r.commitOk /\ r.pushOk}

\* The instance started once, then stopped, entries ending as success,
\* skipped or failed.
\* The scheduler lets every thread run: a consumer thread takes its next
\* step, a git command and the retry sleep return, and a caller inside
\* stop() or queue_sync() goes on to the end of the call.  Whether and when
\* start(), stop() and queue_sync() are called is up to the callers.
NextSyncLive ==
    \/ Start /\ (running \/ consumers[1] = Unborn)
    \/ StopFlag
    \/ StopSentinel
    \/ StopJoin
    \/ QueueCheck
    \/ QueuePut
    \/ \E t \in Threads : LoopCheck(t)
    \/ \E t \in Threads : Get(t)
    \/ \E t \in Threads, r \in LiveRuns : Attempt(t, r, TRUE)

SpecSyncLive ==
    /\ InitSyncThreads
    /\ [][NextSyncLive]_vars
    /\ WF_vars(StopSentinel)
    /\ WF_vars(StopJoin)
    /\ WF_vars(QueuePut)
    /\ \A t \in Threads : WF_vars(LoopCheck(t))
    /\ \A t \in Threads : WF_vars(Get(t))
    /\ \A t \in Threads : WF_vars(\E r \in LiveRuns : Attempt(t, r, TRUE))

-----------------------------------------------------------------------------
(* Properties *)

Issued(name, id) == \E k \in 1..Len(calls) : calls[k].call = name /\ calls[k].id = id

IssuedAny(names) == \E k \in 1..Len(calls) : calls[k].call \in names

\* migrations_today as the limit check sees it, after the date-rollover reset.
EffectiveCount ==
    IF pre.today # pre.last_migration_date THEN 0 ELSE pre.migrations_today

\* C1: a migrate() that returns success=False (limit, create, deploy or
\* verification failure) leaves as many sandboxes live as there were when it
\* was called.
C1_FailedMigrationNoNetCreation ==
    (op = "migrate" /\ ~mres.success) => Len(live) = Len(pre.live)

C1_Witness ==
    /\ op = "migrate"
    /\ mres.error = "Successor failed health verification"
    /\ Issued("create", mres.new_sandbox_id)
    /\ Len(pre.live) = 1
    /\ Len(live) = 1

\* C2: run_watchdog called twice in a row on a population of exactly one
\* sandbox classified HEALTHY returns `healthy` both times and issues no kill,
\* create or deploy call.
C2_RunWatchdogHealthyTwice ==
    (op = "run_watchdog" /\ prev.one_healthy) =>
        /\ prev.action = "healthy"
        /\ wres.action = "healthy"
        /\ ~IssuedAny({"kill", "create", "write_file"})

\* C2, for the handlers alone: a pass over exactly one sandbox classified
\* HEALTHY returns `healthy`, issues no kill, create or deploy call and leaves
\* that sandbox live and HEALTHY; a pass that follows it immediately does the
\* same.
C2_HealthyPassIsNoOpTwice ==
    op = "reconcile" =>
        /\ OneHealthyPopulation(pre) =>
              /\ wres.action = "healthy"
              /\ wres.sandbox_id = pre.live[1]
              /\ ~IssuedAny({"kill", "create", "write_file"})
              /\ live = pre.live
              /\ OneHealthyPopulation(Snapshot)
        /\ prev.one_healthy =>
              /\ prev.action = "healthy"
              /\ wres.action = "healthy"
              /\ wres.sandbox_id = prev.sandbox_id
              /\ ~IssuedAny({"kill", "create", "write_file"})

C2_Witness ==
    /\ op = "reconcile"
    /\ prev.one_healthy
    /\ prev.action = "healthy"
    /\ OneHealthyPopulation(pre)
    /\ wres.action = "healthy"
    /\ live = <<wres.sandbox_id>>

\* C3 as stated: in a reconcile pass no sandbox that the pass classified
\* UNKNOWN is killed, whatever the number of sandboxes observed.
C3_UnknownNeverKilled ==
    op = "reconcile" =>
        \A k \in 1..Len(seen) :
            seen[k].status = UNKNOWN => ~Issued("kill", seen[k].id)

\* C3 amended: a sandbox classified UNKNOWN is not killed when it is the only
\* sandbox observed, nor when it is the sandbox the pass keeps and its
\* re-check classifies UNKNOWN.
C3_UnknownAloneOrKeptNotKilled ==
    op = "reconcile" =>
        /\ (Len(pre.live) = 1 /\ seen[1].status = UNKNOWN) =>
              /\ ~Issued("kill", seen[1].id)
              /\ live = pre.live
        /\ (Len(pre.live) >= 2 /\ seen[Len(seen)].status = UNKNOWN) =>
              /\ ~Issued("kill", seen[Len(seen)].id)
              /\ Member(live, seen[Len(seen)].id)

C3_Witness ==
    /\ op = "reconcile"
    /\ Len(pre.live) >= 2
    /\ seen[Len(seen)].status = UNKNOWN
    /\ wres.action = "cleaned"
    /\ \E k \in 1..(Len(seen) - 1) :
          seen[k].status = UNKNOWN /\ Issued("kill", seen[k].id)

C5_MissingTimestampIsUnknown ==
    (/\ op = "check_health"
     /\ hin.file = "dict"
     /\ hin.ts \in {"absent", "null", "empty"}) =>
        /\ hres.status = UNKNOWN
        /\ hres.error # ""

C5_Witness ==
    /\ op = "check_health"
    /\ hin.file = "dict"
    /\ hin.ts = "null"
    /\ hin.conn = "raises"
    /\ hres.status = UNKNOWN

C7_LimitsBlockCreation ==
    (/\ op = "migrate"
     /\ \/ EffectiveCount >= max_migrations_per_day
        \/ Len(pre.live) >= MAX_CONCURRENT_SANDBOXES) =>
        /\ ~mres.success
        /\ mres.error \notin {"", "none"}
        /\ ~IssuedAny({"create"})
        /\ live = pre.live

C7_Witness ==
    /\ op = "migrate"
    /\ EffectiveCount >= max_migrations_per_day
    /\ Len(pre.live) < MAX_CONCURRENT_SANDBOXES
    /\ ~mres.success

\* C8: when last_migration_date differs from the current date, the limit
\* check of can_migrate / migrate() first resets the counter and the date, so
\* the check passes whatever the counter was.
C8_ResetBeforeLimitCheck ==
    (op \in {"can_migrate", "migrate"} /\ pre.last_migration_date # pre.today) =>
        /\ last_migration_date = pre.today
        /\ op = "can_migrate" => (allowed /\ migrations_today = 0)
        /\ op = "migrate" =>
              /\ mres.error # "Daily migration limit reached"
              /\ migrations_today <= 1

C8_Witness ==
    /\ op = "migrate"
    /\ pre.migrations_today = max_migrations_per_day
    /\ pre.last_migration_date \notin {0, pre.today}
    /\ mres.success

\* The kill of the old sandbox was issued and returned True.
OldKilled ==
    \E k \in 1..Len(calls) : calls[k] = Call("kill", mres.old_sandbox_id, TRUE)

C10_FailureKillsNewSparesOld ==
    (op = "migrate" /\ ~mres.success /\ mres.new_sandbox_id # None) =>
        /\ calls # <<>>
        /\ calls[Len(calls)].call = "kill"
        /\ calls[Len(calls)].id = mres.new_sandbox_id
        /\ ~Member(live, mres.new_sandbox_id)
        /\ ~Issued("kill", mres.old_sandbox_id)
        /\ ~Issued("inject_override", mres.old_sandbox_id)
        /\ ~Issued("write_file", mres.old_sandbox_id)
        /\ Member(pre.live, mres.old_sandbox_id) => Member(live, mres.old_sandbox_id)

C10_Witness ==
    /\ op = "migrate"
    /\ mres.error = "Failed to deploy to successor"
    /\ Member(pre.live, mres.old_sandbox_id)
    /\ Issued("kill", mres.new_sandbox_id)
    /\ Member(live, mres.old_sandbox_id)

\* The kill of the old sandbox was issued and returned False.
OldKillFailed ==
    \E k \in 1..Len(calls) : calls[k] = Call("kill", mres.old_sandbox_id, FALSE)

\* Every step of the deployment to sandbox id was issued and went through.
Deployed(id) ==
    Cardinality({k \in 1..Len(calls) :
                    calls[k].call = "write_file" /\ calls[k].id = id /\ calls[k].ok})
        = DeploySteps

\* C11: when migrate() got as far as retiring the old sandbox (the new one
\* created, deployed and verified) and the kill of the old sandbox returns
\* False, it still returns success=True with new_sandbox_id set to the new
\* sandbox, which is live and was not killed.
C11_SuccessDespiteFailedRetirement ==
    (op = "migrate" /\ OldKillFailed) =>
        /\ mres.success
        /\ mres.error = ""
        /\ mres.new_sandbox_id # None
        /\ Issued("create", mres.new_sandbox_id)
        /\ Deployed(mres.new_sandbox_id)
        /\ Member(live, mres.new_sandbox_id)
        /\ ~Issued("kill", mres.new_sandbox_id)

C11_Witness ==
    /\ op = "migrate"
    /\ OldKillFailed
    /\ mres.success
    /\ Deployed(mres.new_sandbox_id)
    /\ live = pre.live \o <<mres.new_sandbox_id>>

\* The audit note to the old sandbox was attempted and failed.
AuditFailed ==
    \E k \in 1..Len(calls) : calls[k] = Call("inject_override", mres.old_sandbox_id, FALSE)

\* C12: when the audit note to the old sandbox fails, the kill of the old
\* sandbox is still the next call issued, the shutdown counts exactly when
\* that kill returned True (the old sandbox is then gone), and the migration
\* is reported as a success.
C12_AuditFailureDoesNotStopKill ==
    (op = "migrate" /\ AuditFailed) =>
        /\ \E k \in 1..(Len(calls) - 1) :
              /\ calls[k] = Call("inject_override", mres.old_sandbox_id, FALSE)
              /\ calls[k + 1].call = "kill"
              /\ calls[k + 1].id = mres.old_sandbox_id
              /\ calls[k + 1].ok = Member(pre.live, mres.old_sandbox_id)
        /\ migrations_today = EffectiveCount + (IF OldKilled THEN 1 ELSE 0)
        /\ OldKilled <=> Member(pre.live, mres.old_sandbox_id)
        /\ ~Member(live, mres.old_sandbox_id)
        /\ mres.success

C12_Witness ==
    /\ op = "migrate"
    /\ AuditFailed
    /\ Member(pre.live, mres.old_sandbox_id)
    /\ OldKilled
    /\ migrations_today = EffectiveCount + 1

\* The ids for which a create call went through.
Created == {calls[k].id : k \in {j \in 1..Len(calls) : calls[j].call = "create" /\ calls[j].ok}}

\* Position of the first call of that name in `calls` (0: none).
FirstCall(name) ==
    LET S == {k \in 1..Len(calls) : calls[k].call = name}
    IN  IF S = {} THEN 0 ELSE CHOOSE k \in S : \A j \in S : k <= j

\* C13: a pass that lists no sandbox creates one and deploys to it: it
\* returns `deployed` with the id of the sandbox now live when both steps
\* went through, `failed` with an error and nothing created when the create
\* failed, and `failed` with an error after the kill of the created sandbox
\* when the deployment failed.
C13_NoSandboxesDeploysOrFails ==
    (op = "reconcile" /\ Len(pre.live) = 0) =>
        /\ IssuedAny({"create"})
        /\ wres.action \in {"deployed", "failed"}
        /\ wres.action = "deployed" =>
              /\ wres.sandbox_id # None
              /\ Created = {wres.sandbox_id}
              /\ Deployed(wres.sandbox_id)
              /\ live = <<wres.sandbox_id>>
              /\ ~IssuedAny({"kill"})
        /\ (wres.action = "failed" /\ Created = {}) =>
              /\ wres.error = "Failed to create sandbox"
              /\ live = <<>>
              /\ ~IssuedAny({"kill", "write_file"})
        /\ (wres.action = "failed" /\ Created # {}) =>
              /\ wres.error = "Failed to deploy to new sandbox"
              /\ calls[Len(calls)].call = "kill"
              /\ Created = {calls[Len(calls)].id}
              /\ ~Deployed(calls[Len(calls)].id)
              /\ live = <<>>

C13_Witness ==
    /\ op = "reconcile"
    /\ Len(pre.live) = 0
    /\ wres.action = "failed"
    /\ Created # {}
    /\ calls[Len(calls)].call = "kill"
    /\ live = <<>>

C15_OneUnknownLeftAlone ==
    (/\ op = "reconcile"
     /\ Len(pre.live) = 1
     /\ pre.status[1] = UNKNOWN) =>
        /\ wres.action = "healthy"
        /\ wres.sandbox_id = pre.live[1]
        /\ wres.killed = <<>>
        /\ wres.error = ""
        /\ ~IssuedAny({"kill", "create", "write_file"})
        /\ live = pre.live

C15_Witness ==
    /\ op = "reconcile"
    /\ Len(pre.live) = 1
    /\ pre.status[1] = UNKNOWN
    /\ Len(seen) = 1
    /\ seen[1].id = pre.live[1]
    /\ seen[1].status = UNKNOWN
    /\ wres.action = "healthy"
    /\ live = pre.live

\* With several sandboxes listed, `seen` holds the classification of each in
\* listing order, then that of the kept one when it is checked again.
Kept == seen[Len(seen)].id

FirstLook == 1..(Len(seen) - 1)

HealthyAtFirstLook == {k \in FirstLook : seen[k].status = HEALTHY}

\* The kept sandbox was HEALTHY at first look, and no HEALTHY one was fresher.
KeptIsFreshestHealthy ==
    \E k \in HealthyAtFirstLook :
        /\ seen[k].id = Kept
        /\ \A j \in HealthyAtFirstLook :
              seen[k].seconds_since_heartbeat <= seen[j].seconds_since_heartbeat

\* A kill was issued for every sandbox listed except the kept one.
OthersKilled == \A id \in Range(pre.live) \ {Kept} : Issued("kill", id)

\* C16: a pass that lists two or more sandboxes, at least one of them
\* HEALTHY, keeps the HEALTHY one with the smallest seconds_since_heartbeat
\* (whatever the ages, 0 included), issues a kill for every other one and
\* returns `cleaned` with the id of the kept one.
C16_FreshestHealthyKept ==
    (op = "reconcile" /\ Len(pre.live) >= 2 /\ HealthyAtFirstLook # {}) =>
        /\ KeptIsFreshestHealthy
        /\ OthersKilled
        /\ wres.action = "cleaned"
        /\ wres.sandbox_id = Kept

\* C16, where the code agrees: when no HEALTHY sandbox reports an age of 0
\* the freshest HEALTHY one is kept and a kill is issued for every other
\* one; when it is still not STUCK or DEAD at the second look the pass
\* returns `cleaned` with its id and leaves it live.
C16_FreshestKeptAwayFromZero ==
    (/\ op = "reconcile"
     /\ Len(pre.live) >= 2
     /\ HealthyAtFirstLook # {}
     /\ \A k \in HealthyAtFirstLook : seen[k].seconds_since_heartbeat # 0) =>
        /\ KeptIsFreshestHealthy
        /\ OthersKilled
        /\ ~NeedsReplacement(seen[Len(seen)].status) =>
              /\ wres.action = "cleaned"
              /\ wres.sandbox_id = Kept
              /\ ~Issued("kill", Kept)
              /\ live = <<Kept>>

\* A HEALTHY sandbox of age 0 is passed over for a sandbox that is not
\* HEALTHY, and is killed.
C16_ZeroAgePassedOver ==
    /\ op = "reconcile"
    /\ Len(pre.live) >= 2
    /\ \E k \in HealthyAtFirstLook :
          /\ seen[k].seconds_since_heartbeat = 0
          /\ seen[k].id # Kept
          /\ Issued("kill", seen[k].id)
    /\ \E k \in FirstLook : seen[k].id = Kept /\ seen[k].status # HEALTHY

\* C17: a pass that lists two or more sandboxes, none of them HEALTHY,
\* keeps the first in listing order and issues a kill for every other one;
\* when the kept one classifies UNKNOWN at the second look it is not killed,
\* nothing is created and the pass returns `cleaned` with its id.
C17_NoHealthyKeepsFirst ==
    (op = "reconcile" /\ Len(pre.live) >= 2 /\ HealthyAtFirstLook = {}) =>
        /\ Kept = pre.live[1]
        /\ OthersKilled
        /\ \A id \in Range(pre.live) \ {Kept} : ~Member(live, id)
        /\ seen[Len(seen)].status = UNKNOWN =>
              /\ ~Issued("kill", Kept)
              /\ ~IssuedAny({"create", "write_file"})
              /\ wres.action = "cleaned"
              /\ wres.sandbox_id = Kept
              /\ live = <<Kept>>

C17_Witness ==
    /\ op = "reconcile"
    /\ Len(pre.live) >= 2
    /\ \A k \in FirstLook : seen[k].status = UNKNOWN
    /\ seen[Len(seen)].status = UNKNOWN
    /\ wres.action = "cleaned"
    /\ wres.sandbox_id = pre.live[1]
    /\ Len(wres.killed) = Len(pre.live) - 1

\* C18: with several sandboxes listed, when the kept one classifies STUCK or
\* DEAD at the second look, the pass kills it too, after the others and
\* before any create, then creates and deploys a replacement: it returns
\* `recovered` with the id of the new sandbox, or `failed` with an error when
\* the create or the deployment failed; killed includes the kept one either
\* way.
C18_SickKeeperReplaced ==
    (/\ op = "reconcile"
     /\ Len(pre.live) >= 2
     /\ seen[Len(seen)].status \in {STUCK, DEAD}) =>
        /\ OthersKilled
        /\ Issued("kill", Kept)
        /\ \A k \in 1..Len(calls) :
              (calls[k].call = "kill" /\ calls[k].id \in Range(pre.live) \ {Kept}) =>
                 \E j \in (k + 1)..Len(calls) : calls[j] = Call("kill", Kept, TRUE)
        /\ IssuedAny({"create"})
        /\ \E j \in 1..Len(calls) :
              calls[j].call = "kill" /\ calls[j].id = Kept /\ j < FirstCall("create")
        /\ Member(wres.killed, Kept)
        /\ Range(pre.live) \subseteq Range(wres.killed)
        /\ wres.action \in {"recovered", "failed"}
        /\ wres.action = "recovered" =>
              /\ wres.sandbox_id \notin Range(pre.live) \cup {None}
              /\ Created = {wres.sandbox_id}
              /\ Deployed(wres.sandbox_id)
              /\ live = <<wres.sandbox_id>>
        /\ wres.action = "failed" =>
              /\ wres.error # ""
              /\ Created = {} \/ \E id \in Created : ~Deployed(id)
              /\ live = <<>>

C18_Witness ==
    /\ op = "reconcile"
    /\ Len(pre.live) >= 2
    /\ seen[Len(seen)].status = STUCK
    /\ wres.action = "recovered"
    /\ Member(wres.killed, Kept)
    /\ Len(wres.killed) = Len(pre.live)
    /\ live = <<wres.sandbox_id>>

\* The actions a pass may report.
Actions == {"healthy", "deployed", "recovered", "cleaned", "failed"}

\* C19: run_watchdog never raises to its caller: it returns a result whose
\* action is one of healthy, deployed, recovered, cleaned and failed, with a
\* non-empty error when the action is `failed`.
C19_NeverRaises ==
    op = "run_watchdog" =>
        /\ wres.action \in Actions
        /\ wres.action = "failed" => wres.error # ""

\* run_watchdog was called and an exception left it; the scheduled run that
\* called it ends with the failure status and has touched nothing.
C19_Raised ==
    /\ op = "main"
    /\ wres = Raised("TypeError")
    /\ exit_code = EXIT_FAILED
    /\ calls = <<>>
    /\ live = pre.live

\* The exit status main() gives a result with that action.
ExitOf(action) == sys_exit(WatchdogResult(action, None, <<>>, ""))

\* C20: the exit status of a scheduled run tells `healthy`, `recovered` and
\* `failed` apart: the status given to the outcome of a pass is given to
\* neither of the other two.
C20_DistinctExitCodes ==
    (op = "reconcile" /\ wres.action \in {"healthy", "recovered", "failed"}) =>
        /\ exit_code = ExitOf(wres.action)
        /\ \A a \in {"healthy", "recovered", "failed"} \ {wres.action} :
              exit_code # ExitOf(a)

\* A pass that killed and replaced the agent gets the status of a healthy one.
C20_RecoveredExitsLikeHealthy ==
    /\ op = "reconcile"
    /\ wres.action = "recovered"
    /\ wres.killed # <<>>
    /\ exit_code = EXIT_OK
    /\ exit_code = ExitOf("healthy")

\* C20, where the code agrees: the failure status is given exactly to a pass
\* that reports `failed` or does not return.
C20_FailureDistinguishable ==
    op \in {"reconcile", "run_watchdog"} =>
        (exit_code = EXIT_FAILED <=> wres.action \in {"failed", "raised"})

-----------------------------------------------------------------------------
(* Properties of the sync worker *)

\* The SyncResults produced for entry e, in order.
ResultsOf(e) == SelectSeq(results, LAMBDA r : r.entry = e)

Statuses(status) == {k \in 1..Len(results) : results[k].status = status}

\* The entries some consumer holds in _process_entry.
InProcess == {consumers[t].entry : t \in {u \in Threads : consumers[u].pc = "sync"}}

\* The exception text of a run of _do_sync that ended in a failed command.
ErrorOf(issued) == issued[Len(issued)].call \o " failed"

\* The last run of _do_sync was the third for its entry and raised.
ThirdAttemptFailed ==
    /\ calls # <<>>
    /\ calls[1].call = "git add"
    /\ ~calls[Len(calls)].ok
    /\ calls[Len(calls)].call # "git diff --cached --quiet"
    /\ tries[calls[1].id] = MAX_RETRIES

\* C21: an entry whose every attempt fails is attempted exactly 3 times and
\* never a fourth, gets exactly one SyncResult, with status `failed`,
\* attempts = 3 and the error of the third attempt, and adds one to
\* total_failures; the consumer is then back at its loop, still running.
C21_FailedAfterThreeAttempts ==
    /\ \A e \in Entries : tries[e] <= MAX_RETRIES
    /\ \A k \in Statuses("failed") :
          /\ results[k].attempts = MAX_RETRIES
          /\ tries[results[k].entry] = MAX_RETRIES
          /\ results[k].error \in {"git add failed", "git commit failed", "git push failed"}
          /\ Len(ResultsOf(results[k].entry)) = 1
    /\ total_failures = Cardinality(Statuses("failed"))
    /\ ThirdAttemptFailed =>
          /\ ResultsOf(calls[1].id) =
                <<SyncResult(calls[1].id, "failed", MAX_RETRIES, ErrorOf(calls),
                             results[Len(results)].logged)>>
          /\ calls[1].id \notin InProcess
          /\ \A t \in Threads : consumers[t].pc # "exited"

\* An entry failed three times and the one queued after it was processed.
C21_Witness ==
    /\ Len(results) = 2
    /\ results[1].status = "failed"
    /\ results[1].attempts = MAX_RETRIES
    /\ tries[results[1].entry] = MAX_RETRIES
    /\ results[2].entry # results[1].entry
    /\ total_failures = 1

\* A call of queue_sync reads _running: the caller moves on to the next entry.
QueueSyncChecks == prod.pc = "idle" /\ prod'.entry # prod.entry

\* A call of queue_sync that got past its check returns.
QueueSyncPuts == prod.pc = "put" /\ prod'.pc = "idle"

\* C22: queue_sync never waits: with the worker not running it returns False
\* and the queue is as before; with the queue at its capacity it returns
\* False and the queue is as before; otherwise the entry is appended and it
\* returns True.  The queue never holds more than its capacity.
C22_QueueSyncNeverBlocks ==
    /\ [](Len(queue) <= MAX_QUEUE_SIZE)
    /\ [](prod.pc = "put" => ENABLED QueuePut)
    /\ [][/\ QueueSyncChecks =>
                /\ queue' = queue
                /\ accepted' = accepted
                /\ IF running THEN prod'.pc = "put"
                              ELSE prod'.pc = "idle" /\ ret' = FALSE
          /\ QueueSyncPuts =>
                IF Len(queue) >= MAX_QUEUE_SIZE
                THEN /\ ret' = FALSE
                     /\ queue' = queue
                     /\ accepted' = accepted
                ELSE /\ ret' = TRUE
                     /\ queue' = Append(queue, prod.entry)
                     /\ accepted' = accepted \cup {prod.entry}]_vars

\* The worker has run without a stop since it took the first entry, and the
\* second entry was turned away at a full queue.
C22_Witness ==
    /\ running
    /\ ctl = "idle"
    /\ \A t \in Threads : t # thread => consumers[t] = Unborn
    /\ prod = [pc |-> "idle", entry |-> 2]
    /\ accepted = {1}
    /\ ret = FALSE
    /\ Len(queue) = MAX_QUEUE_SIZE

\* C23: at most one consumer thread of the instance is alive at any time.
C23_AtMostOneConsumerAlive == Cardinality(Alive) <= 1

\* The thread a timed-out stop() left behind runs next to the one the next
\* start() created, and the flag it polls is up again.
C23_TwoConsumersAlive ==
    /\ running
    /\ thread = 2
    /\ ctl = "idle"
    /\ Alive = {1, 2}
    /\ consumers[1].pc = "get"

\* C23, where the code agrees: start() on a running worker and stop() on a
\* stopped one change nothing.
C23_StartStopIdempotent ==
    [][/\ (Start /\ running) => UNCHANGED SyncVars
       /\ (StopFlag /\ ~running) => UNCHANGED SyncVars]_vars

\* C24: once stop() has lowered the flag, the consumer thread ends, and by
\* then every entry the queue held at that moment has its terminal outcome;
\* stop() itself gets to its end.
C24_StopDrainsAndEnds ==
    /\ [](\A t \in Threads :
            consumers[t].pc = "exited" =>
                \A e \in at_stop : Len(ResultsOf(e)) = 1 /\ e \notin InProcess)
    /\ \A t \in Threads :
          (ctl = "stop_put" /\ thread = t) ~> (consumers[t].pc = "exited")
    /\ (ctl # "idle") ~> (ctl = "idle")

\* stop() found an entry in the queue; the consumer processed it and ended,
\* and stop() has returned.
C24_Witness ==
    /\ at_stop # {}
    /\ ~running
    /\ ctl = "idle"
    /\ thread = None
    /\ consumers[1].pc = "exited"
    /\ \A e \in at_stop : Len(ResultsOf(e)) = 1

\* The last run of _do_sync found nothing staged: its staged-diff check
\* came back with exit code 0.
NothingStaged ==
    \E k \in 1..Len(calls) :
        calls[k].call = "git diff --cached --quiet" /\ calls[k].ok

\* C25: when the staged-diff check of a run reports nothing staged, the run
\* issues no commit and no push, the entry gets its one SyncResult, with
\* status `skipped` and the number of the attempt, and it counts in
\* total_syncs: total_syncs is the number of `success` and `skipped`
\* results, total_failures the number of `failed` ones.
C25_NothingStagedIsSkipped ==
    /\ NothingStaged =>
          /\ \A k \in 1..Len(calls) : calls[k].call \notin {"git commit", "git push"}
          /\ ResultsOf(calls[1].id) =
                <<SyncResult(calls[1].id, "skipped", tries[calls[1].id], "",
                             results[Len(results)].logged)>>
          /\ results[Len(results)].entry = calls[1].id
    /\ total_syncs = Cardinality(Statuses("success") \cup Statuses("skipped"))
    /\ total_failures = Cardinality(Statuses("failed"))

\* An entry without changes was skipped at its first attempt.
C25_Witness ==
    /\ NothingStaged
    /\ Len(calls) = 2
    /\ results = <<SyncResult(1, "skipped", 1, "", tracker_path)>>
    /\ total_syncs = 1
    /\ total_failures = 0
    /\ local = {}

\* The entries _process_entry has returned for.
Processed == {e \in Entries : tries[e] > 0 /\ e \notin InProcess}

\* The lines of the audit log: the SyncResults whose write went through.
AuditLog == SelectSeq(results, LAMBDA r : r.logged)

\* C26 as stated: every processed entry has exactly one SyncResult in the
\* audit log.
C26_EveryEntryLoggedOnce ==
    \A e \in Processed : Len(SelectSeq(AuditLog, LAMBDA r : r.entry = e)) = 1

\* C26: every processed entry has exactly one SyncResult, with a status of
\* success, skipped or failed and 1 to 3 attempts, and an entry not yet
\* processed has none; the audit log holds at most that one line for it,
\* and none when the instance has no tracker path; total_syncs +
\* total_failures is the number of entries processed.
C26_OneResultAtMostLogged ==
    /\ \A e \in Entries :
          Len(ResultsOf(e)) = IF e \in Processed THEN 1 ELSE 0
    /\ \A k \in 1..Len(results) :
          /\ results[k].status \in {"success", "skipped", "failed"}
          /\ results[k].attempts \in 1..MAX_RETRIES
          /\ results[k].logged => tracker_path
    /\ total_syncs + total_failures = Cardinality(Processed)
    /\ total_syncs + total_failures = Len(results)

\* Two entries were processed and only the first has its line: the write
\* for the second failed.
C26_Witness ==
    /\ tracker_path
    /\ Processed = {1, 2}
    /\ Len(results) = 2
    /\ results[1].logged
    /\ ~results[2].logged
    /\ Len(AuditLog) = 1

\* The last run of _do_sync gave its entry a terminal outcome with that status.
JustRecorded(status) ==
    /\ calls # <<>>
    /\ results # <<>>
    /\ results[Len(results)].entry = calls[1].id
    /\ results[Len(results)].status = status
    /\ calls[1].id \notin InProcess

\* C27: when an entry is recorded as `success` or `skipped`, no commit made
\* for it is in the local branch only.
C27_RecordedOnlyWhenPushed ==
    (JustRecorded("success") \/ JustRecorded("skipped")) =>
        calls[1].id \notin local

\* The push of the first attempt failed after its commit; the second attempt
\* found nothing staged, and the entry is recorded as skipped with its
\* commit still unpushed.
C27_SkippedWithUnpushedCommit ==
    /\ JustRecorded("skipped")
    /\ NothingStaged
    /\ results[Len(results)].attempts = 2
    /\ calls[1].id \in local
    /\ total_failures = 0

\* Every consumer thread the instance created has ended, and no call is
\* under way.
AllExited ==
    /\ Alive = {}
    /\ \E t \in Threads : consumers[t].pc = "exited"
    /\ ctl = "idle"
    /\ prod.pc = "idle"

\* C28: no entry for which queue_sync returned True is left in the queue
\* once the consumer has exited.
C28_NoAcceptedEntryLeftBehind ==
    AllExited => Range(queue) \cap accepted = {}

\* queue_sync read _running before stop() lowered it and put its entry after
\* the consumer had seen the queue empty and left: it returned True, and the
\* entry sits in the queue of a stopped worker, unprocessed.
C28_AcceptedEntryStranded ==
    /\ AllExited
    /\ ~running
    /\ thread = None
    /\ ret = TRUE
    /\ prod.entry \in accepted
    /\ queue = <<prod.entry>>
    /\ ResultsOf(prod.entry) = <<>>
    /\ prod.entry \notin at_stop

-----------------------------------------------------------------------------
(* Properties of the reconcile pass, continued *)

\* C29: a pass that finds one sandbox whose heartbeat is less than
\* stuck_threshold_s (600 s) old does not kill it.
C29_YoungHeartbeatNotKilled ==
    (/\ op = "reconcile"
     /\ Len(pre.live) = 1
     /\ seen[1].status \in {HEALTHY, STUCK}
     /\ seen[1].seconds_since_heartbeat < STUCK_THRESHOLD_S) =>
        /\ ~Issued("kill", pre.live[1])
        /\ wres.killed = <<>>

\* The only sandbox, with a heartbeat 60 s old, was killed and replaced.
C29_KilledAtSixtySeconds ==
    /\ op = "reconcile"
    /\ Len(pre.live) = 1
    /\ seen = <<[id |-> pre.live[1], status |-> STUCK,
                 seconds_since_heartbeat |-> DEFAULT_HEALTHY_THRESHOLD]>>
    /\ Issued("kill", pre.live[1])
    /\ wres.action = "recovered"
    /\ wres.killed = <<pre.live[1]>>
    /\ pre.live[1] \notin Range(live)

-----------------------------------------------------------------------------
(* Order of the steps of a migration *)

\* The step of migrate() a collaborator call belongs to: 1 create, 2 deploy,
\* 3 verify, 4 retire (or, on a failure path, the clean-up kill).
StepOf(c) ==
    CASE c.call \in {"list_sandboxes", "create"} -> 1
      [] c.call = "write_file" -> 2
      [] c.call = "check_health" -> 3
      [] OTHER -> 4

\* The successor's last poll read HEALTHY.
VerifiedHealthy == seen # <<>> /\ seen[Len(seen)].status = HEALTHY

\* The old sandbox was written to or killed.
OldTouched ==
    \E k \in 1..Len(calls) :
        /\ calls[k].call \in {"inject_override", "kill"}
        /\ calls[k].id = mres.old_sandbox_id

\* C36: within migrate() the steps run in the order limit check, create,
\* deploy, verify, retire, and no later step is attempted after an earlier one
\* failed: a refused limit check issues no call, there is no deploy without a
\* successful create, no verify without a complete deploy, and no write to or
\* kill of the old sandbox unless the verification read HEALTHY.
C36_StepsInOrderNoneAfterFailure ==
    op = "migrate" =>
        /\ ~can_migrate(pre.migrations_today, pre.last_migration_date, pre.today).ok
              => calls = <<>>
        /\ \A i, j \in 1..Len(calls) : i < j => StepOf(calls[i]) <= StepOf(calls[j])
        /\ \A k \in 1..Len(calls) :
              calls[k].call = "write_file" =>
                  \E j \in 1..(k - 1) : calls[j] = Call("create", calls[k].id, TRUE)
        /\ IssuedAny({"check_health"}) =>
              /\ Deployed(mres.new_sandbox_id)
              /\ \A k \in 1..Len(calls) :
                    calls[k].call = "check_health" => calls[k].id = mres.new_sandbox_id
        /\ OldTouched => VerifiedHealthy

C36_Witness ==
    /\ op = "migrate"
    /\ mres.success
    /\ Deployed(mres.new_sandbox_id)
    /\ Len(seen) = MaxPolls
    /\ VerifiedHealthy
    /\ OldKilled
    /\ FirstCall("create") < FirstCall("write_file")
    /\ FirstCall("write_file") < FirstCall("check_health")
    /\ FirstCall("check_health") < FirstCall("inject_override")

\* C37: verify_successor ends within the polls its timeout allows, stops at the
\* first poll that reads HEALTHY and returns True exactly then; when no poll
\* within the timeout reads HEALTHY, whatever else they read, the migration
\* ends FAILED with the successor killed and the old sandbox untouched.
C37_VerifiedExactlyWhenAPollIsHealthy ==
    (op = "migrate" /\ seen # <<>>) =>
        /\ Len(seen) <= MaxPolls
        /\ \A k \in 1..Len(seen) : seen[k].id = mres.new_sandbox_id
        /\ \A k \in 1..(Len(seen) - 1) : seen[k].status # HEALTHY
        /\ mres.success <=> VerifiedHealthy
        /\ ~VerifiedHealthy =>
              /\ Len(seen) = MaxPolls
              /\ mres.error = "Successor failed health verification"
              /\ Issued("kill", mres.new_sandbox_id)
              /\ ~Member(live, mres.new_sandbox_id)
              /\ ~OldTouched

C37_Witness ==
    /\ op = "migrate"
    /\ Len(seen) = MaxPolls
    /\ seen[1].status = UNKNOWN
    /\ seen[MaxPolls].status = STUCK
    /\ ~mres.success
    /\ mres.error = "Successor failed health verification"
    /\ Member(pre.live, mres.old_sandbox_id)
    /\ live = pre.live

-----------------------------------------------------------------------------
(* Order of classification and kills in a pass over several sandboxes *)

\* Positions in `calls` of the health checks of sandbox id.
ChecksOf(id) == {k \in 1..Len(calls) : calls[k] = Call("check_health", id, TRUE)}

\* C38: in a pass that lists several sandboxes, every listed sandbox has been
\* classified, on the listing and the heartbeats of the start of the pass,
\* before the first kill of the pass is issued, and the sandbox the pass keeps
\* is one of those it classified.
C38_AllClassifiedBeforeFirstKill ==
    (op = "reconcile" /\ Len(pre.live) >= 2) =>
        /\ Len(seen) = Len(pre.live) + 1
        /\ \A k \in FirstLook :
              /\ seen[k].id = pre.live[k]
              /\ seen[k].status = pre.status[k]
              /\ calls[k + 1] = Call("check_health", pre.live[k], TRUE)
        /\ FirstCall("kill") # 0 =>
              \A i \in Range(pre.live) : \E k \in ChecksOf(i) : k < FirstCall("kill")
        /\ \E k \in FirstLook : seen[k].id = Kept

C38_Witness ==
    /\ op = "reconcile"
    /\ Len(pre.live) = 2
    /\ wres.action = "cleaned"
    /\ Kept = pre.live[2]
    /\ FirstCall("kill") = 5
    /\ calls[5] = Call("kill", pre.live[1], TRUE)
    /\ live = <<Kept>>

\* The kills a pass issued for sandboxes it neither listed nor created.
StrangersKilled ==
    {calls[k].id : k \in {j \in 1..Len(calls) :
        /\ calls[j].call = "kill"
        /\ calls[j].id \notin Range(pre.live) \cup Created}}

\* C35: a pass that lists several sandboxes kills only sandboxes it listed and
\* classified (or created itself): a sandbox that appears after the pass's
\* listing is not killed by the orphan clean-up.
C35_KillsOnlyWhatItListed ==
    (op = "reconcile" /\ Len(pre.live) >= 2) => StrangersKilled = {}

\* A sandbox that appeared after the listing was killed by the clean-up,
\* unclassified, and the pass reports it among the orphans it removed.
C35_NewcomerKilled ==
    /\ op = "reconcile"
    /\ Len(pre.live) = 2
    /\ wres.action = "cleaned"
    /\ \E i \in StrangersKilled :
          /\ \A k \in 1..Len(seen) : seen[k].id # i
          /\ \E k \in 1..Len(wres.killed) : wres.killed[k] = i
          /\ FirstCall("list_sandboxes") < FirstCall("kill")
          /\ ~Member(live, i)

-----------------------------------------------------------------------------
(* What deploy_self sends to the new sandbox *)

\* The calls of the last operation that were addressed to sandbox id after it
\* was created, as a sequence of call names, up to the first that failed.
RECURSIVE NamesFrom(_, _)
NamesFrom(k, id) ==
    IF k > Len(calls) THEN <<>>
    ELSE IF calls[k].id = id /\ calls[k].call \notin {"create", "check_health", "kill"}
    THEN <<calls[k].call>> \o NamesFrom(k + 1, id)
    ELSE NamesFrom(k + 1, id)

\* The operation got as far as deploying to a sandbox it created.
DeployedTo == {id \in Created : NamesFrom(1, id) # <<>>}

\* Every deploy step went through: none raised.
DeployComplete(id) ==
    \A k \in 1..Len(calls) : (calls[k].id = id /\ calls[k].call # "kill") => calls[k].ok

\* C39: deploy_self issues, against the new sandbox and in this order, two
\* blocking run_command calls and then one start_background_command call, and
\* never a write_file call; the first step that raises ends the sequence.
C39_TwoCommandsThenBackgroundStart ==
    op \in {"migrate", "reconcile"} =>
        \A id \in DeployedTo :
            /\ "write_file" \notin Range(NamesFrom(1, id))
            /\ DeployComplete(id) =>
                  NamesFrom(1, id) = <<"run_command", "run_command",
                                       "start_background_command">>
            /\ ~DeployComplete(id) =>
                  \E n \in 1..DeploySteps :
                      NamesFrom(1, id) =
                          SubSeq(<<"run_command", "run_command",
                                   "start_background_command">>, 1, n)

\* A deployment that went through wrote three files to the new sandbox and
\* started nothing there.
C39_DeployOnlyWritesFiles ==
    /\ op = "migrate"
    /\ \E id \in DeployedTo :
          /\ DeployComplete(id)
          /\ NamesFrom(1, id) = <<"write_file", "write_file", "write_file">>
          /\ ~IssuedAny({"run_command", "start_background_command"})
          /\ seen # <<>>

\* What deploy_self does keep to: the steps go to the new sandbox in order
\* and the first one that raises is the last one issued.
C39_FirstFailureStopsDeploy ==
    op \in {"migrate", "reconcile"} =>
        \A k \in 1..Len(calls) :
            (calls[k].call = "write_file" /\ ~calls[k].ok) =>
                /\ k < Len(calls)
                /\ calls[k + 1] = Call("kill", calls[k].id, TRUE)
                /\ \A j \in (k + 1)..Len(calls) : calls[j].call # "write_file"
                /\ (op = "migrate" => mres.error = "Failed to deploy to successor")
                /\ (op = "reconcile" => wres.action = "failed")

\* The texts the last operation handed to the controller, as command strings
\* or as file contents.
TextsSent ==
    {calls[k].content : k \in {j \in 1..Len(calls) : calls[j].call = "write_file"}}

Contains(text, part) == \E k \in 1..Len(text) : text[k] = part

\* C40: no text deploy_self sends to the controller holds the GitHub token.
C40_TokenNotInAnyText ==
    op \in {"migrate", "reconcile"} =>
        \A text \in TextsSent : ~Contains(text, github_token)

\* The clone step was sent as a file whose content holds the token inside the
\* repository URL.
C40_TokenInCloneScript ==
    /\ op = "migrate"
    /\ \E k \in 1..Len(calls) :
          /\ calls[k].call = "write_file"
          /\ calls[k].ok
          /\ calls[k].path = "/tmp/deploy_cmd.sh"
          /\ calls[k].content = <<"#!/bin/bash\n", "git clone ", "https://", github_token,
                                  "@", "github.com/org/brain", " /home/user/brain", "\n">>

-----------------------------------------------------------------------------
(* The daily migration limit *)

\* C34: between two resets of the daily counter at most
\* max_migrations_per_day calls of migrate() return success=True, and
\* migrations_today stays within 0..max_migrations_per_day.
C34_AtMostLimitSuccessesPerDay ==
    /\ successes <= max_migrations_per_day
    /\ migrations_today \in 0..max_migrations_per_day

\* One success more than the limit allows, on one date, with the counter
\* still below the limit: the old sandbox of a migration was gone already.
C34_SuccessesBeyondLimit ==
    /\ op = "migrate"
    /\ mres.success
    /\ OldKillFailed
    /\ successes = max_migrations_per_day + 1
    /\ migrations_today < max_migrations_per_day
    /\ last_migration_date = today

\* What the counter does bound: migrations_today stays within
\* 0..max_migrations_per_day and never exceeds the successes of the date.
C34_CounterWithinLimit ==
    /\ migrations_today \in 0..max_migrations_per_day
    /\ last_migration_date = today => migrations_today <= successes

-----------------------------------------------------------------------------
(* The concurrency limit under overlapping callers *)

\* C33: create_successor never takes the number of live sandboxes above
\* MAX_CONCURRENT_SANDBOXES, also when a second caller runs between the count
\* and the create of the first.
C33_NeverAboveLimit ==
    Len(live) <= MAX_CONCURRENT_SANDBOXES

\* Two callers counted one sandbox each before either created: both creates
\* went through and three sandboxes are live.
C33_ThreeLiveAfterOverlap ==
    /\ op = "create"
    /\ Len(live) = MAX_CONCURRENT_SANDBOXES + 1
    /\ calls = <<Call("create", live[Len(live)], TRUE)>>
    /\ \A p \in Callers : passes[p] = NotCounting

\* What the check does give: a create that follows its own count with no
\* other create in between leaves at most MAX_CONCURRENT_SANDBOXES live.
C33_LimitHeldWithoutOverlap ==
    [][\A p \in Callers, createOk \in BOOLEAN :
          (SandboxCreate(p, createOk) /\ Len(live) <= passes[p].active)
              => Len(live') <= MAX_CONCURRENT_SANDBOXES]_vars

-----------------------------------------------------------------------------
(* A crash inside migrate() and its repair *)

\* Where sandboxes only appear through migrate(), two live sandboxes are what
\* a process that died inside migrate() left behind.
\* C31 as stated: a crash inside migrate() leaves at most one sandbox more
\* than there was, and the next pass over such a population takes the
\* several-sandboxes path and ends with exactly one sandbox live.
C31_CrashRepairedToExactlyOne ==
    /\ op = "crash" => Len(live) <= Len(pre.live) + 1
    /\ (op = "reconcile" /\ Len(pre.live) >= 2) =>
          /\ wres.action \in {"cleaned", "recovered"}
          /\ Len(live) = 1

\* C31 amended: a crash inside migrate() leaves at most one sandbox more than
\* there was and never more than MAX_CONCURRENT_SANDBOXES; the next pass over
\* such a population takes the several-sandboxes path, keeps one sandbox and
\* kills the other, and ends with exactly one sandbox live unless the kept one
\* was STUCK or DEAD and its replacement could not be created or deployed:
\* the pass then returns `failed` and no sandbox is live.
C31_CrashRepairedUnlessReplacementFails ==
    /\ op = "crash" =>
          /\ Len(live) <= Len(pre.live) + 1
          /\ Len(live) <= MAX_CONCURRENT_SANDBOXES
    /\ (op = "reconcile" /\ Len(pre.live) >= 2) =>
          /\ Len(seen) = Len(pre.live) + 1
          /\ OthersKilled
          /\ wres.action \in {"cleaned", "recovered", "failed"}
          /\ wres.action \in {"cleaned", "recovered"} => live = <<wres.sandbox_id>>
          /\ wres.action = "failed" =>
                /\ live = <<>>
                /\ seen[Len(seen)].status \in {STUCK, DEAD}
                /\ \/ Call("create", None, FALSE) \in Range(calls)
                   \/ \E k \in 1..Len(calls) : calls[k].call = "write_file" /\ ~calls[k].ok

\* The migrating process died after its successor was created and verified;
\* the pass found the old sandbox and the successor, kept one and killed the
\* other.
C31_Witness ==
    /\ op = "reconcile"
    /\ Len(pre.live) = 2
    /\ pre.status = <<HEALTHY, HEALTHY>>
    /\ wres.action = "cleaned"
    /\ Len(wres.killed) = 1
    /\ live = <<wres.sandbox_id>>

-----------------------------------------------------------------------------
(* Repair of a sandbox whose worker is silent *)

\* C32: under repeated passes whose create, deploy and kill calls succeed, a
\* single live sandbox whose worker never writes a readable heartbeat is
\* eventually killed and replaced.
C32_SilentInstanceEventuallyReplaced ==
    \A i \in Ids :
        (live = <<i>> /\ hb[i] = NoFileRunning) ~> (i \notin Range(live) \/ hb[i] # NoFileRunning)

\* Two passes in a row found the one sandbox running with no readable
\* heartbeat, called it healthy and left it as it was.
C32_SilentInstanceLeftAlone ==
    /\ op = "reconcile"
    /\ prev.action = "healthy"
    /\ ~prev.one_healthy
    /\ wres.action = "healthy"
    /\ live = <<wres.sandbox_id>>
    /\ live = pre.live
    /\ hb[live[1]] = NoFileRunning
    /\ seen = <<Seen(live[1], check_health(NoFileRunning, DEFAULT_HEALTHY_THRESHOLD,
                                           STUCK_THRESHOLD_S))>>
    /\ seen[1].status = UNKNOWN
    /\ calls = <<Call("list_sandboxes", None, TRUE), Call("check_health", live[1], TRUE)>>
    /\ ENABLED GoodPass

\* Heartbeats a pass classifies STUCK or DEAD.
SickBeats == {Beat(DEFAULT_HEALTHY_THRESHOLD), Beat(STUCK_THRESHOLD_S)}

\* C32 amended: under repeated passes whose create, deploy and kill calls
\* succeed, a single live sandbox classified STUCK or DEAD does not stay as
\* it is: a pass kills and replaces it, unless it goes away or its worker
\* writes again first.  A single live sandbox with no readable heartbeat is
\* classified UNKNOWN, reported `healthy` and left as it is by every pass.
C32_SickReplacedSilentLeftAlone ==
    /\ \A i \in Ids, h \in SickBeats :
          (live = <<i>> /\ hb[i] = h) ~> (live # <<i>> \/ hb[i] # h)
    /\ [](op = "reconcile" =>
            /\ (Len(pre.live) = 1 /\ pre.status[1] = UNKNOWN) =>
                  /\ wres.action = "healthy"
                  /\ ~IssuedAny({"kill", "create", "write_file"})
                  /\ live = pre.live
                  /\ hb[live[1]] = NoFileRunning
            /\ (Len(pre.live) = 1 /\ pre.status[1] \in {STUCK, DEAD}) =>
                  /\ Call("kill", pre.live[1], TRUE) \in Range(calls)
                  /\ ~Member(live, pre.live[1])
                  /\ wres.action \in {"recovered", "failed"}
                  /\ (\A k \in 1..Len(calls) : calls[k].ok) => wres.action = "recovered"
                  /\ wres.action = "recovered" => live = <<wres.sandbox_id>>)

====
